---- MODULE Spec2Model ----
(***************************************************************************)
(* Verification model of the portal-formations content synchronisation     *)
(* code: the JSON course editor (AdminCourseEditJson), the JSON item       *)
(* editor (AdminItemEditJson), the course form editor (AdminCourseEdit),   *)
(* the chapter manager, the game registry and the two matching games.      *)
(*                                                                         *)
(* Optional values (undefined / null in the source) are sequences of       *)
(* length 0 or 1: None is <<>>, Some(v) is <<v>>.  Strings that the code   *)
(* transforms (item types) are sequences of one-character strings.         *)
(***************************************************************************)
EXTENDS Integers, Sequences, FiniteSets, TLC

\* ------------------------------------------------------------------ bounds
MaxModules == 2
MaxItems == 2
MaxSaves == 2
MaxFaults == 1
MaxFormModules == 2
MaxFormItems == 2
MaxTemps == 2
MaxChapters == 3
MaxTitleEdits == 1
MaxPairs == 2
MaxAttempts == 3
MaxTime == 6
MaxColumn == 2
MaxNesting == 3
MaxFetches == 1

\* ------------------------------------------------------------------ options
None == <<>>
Some(v) == <<v>>
IsSome(o) == Len(o) > 0
Val(o) == o[1]

\* a || b of the source, for an optional left operand (no falsy present value)
OrElse(o, d) == IF IsSome(o) THEN Val(o) ELSE d

Range(s) == { s[i] : i \in 1..Len(s) }

\* ------------------------------------------------------------------ strings
\* String.prototype.toLowerCase on the characters the model uses
LowerChar(c) ==
  CASE c = "A" -> "a" [] c = "C" -> "c" [] c = "D" -> "d" [] c = "E" -> "e"
    [] c = "G" -> "g" [] c = "I" -> "i" [] c = "J" -> "j" [] c = "L" -> "l"
    [] c = "M" -> "m" [] c = "O" -> "o" [] c = "P" -> "p" [] c = "Q" -> "q"
    [] c = "R" -> "r" [] c = "S" -> "s" [] c = "T" -> "t" [] c = "U" -> "u"
    [] c = "V" -> "v" [] c = "X" -> "x" [] c = "Y" -> "y" [] c = "Z" -> "z"
    [] c = "É" -> "é"
    [] OTHER -> c

toLowerCase(s) == [i \in 1..Len(s) |-> LowerChar(s[i])]

WhiteSpace == {" ", "\t", "\n"}

RECURSIVE TrimLeft(_)
TrimLeft(s) ==
  IF s # <<>> /\ Head(s) \in WhiteSpace THEN TrimLeft(Tail(s)) ELSE s

RECURSIVE TrimRight(_)
TrimRight(s) ==
  IF s # <<>> /\ s[Len(s)] \in WhiteSpace
  THEN TrimRight(SubSeq(s, 1, Len(s) - 1))
  ELSE s

\* String.prototype.trim
trim(s) == TrimRight(TrimLeft(s))

\* ------------------------------------------------------------------ item types
\* 'resource' | 'slide' | 'exercise' | 'tp' | 'game', as character sequences
T_resource == <<"r", "e", "s", "o", "u", "r", "c", "e">>
T_slide == <<"s", "l", "i", "d", "e">>
T_exercise == <<"e", "x", "e", "r", "c", "i", "s", "e">>
T_tp == <<"t", "p">>
T_game == <<"g", "a", "m", "e">>
ItemTypes == {T_resource, T_slide, T_exercise, T_tp, T_game}

\* the typeMap literal of validateItemType: <<key, valid type>>
typeMap ==
  { <<<<"r", "e", "s", "o", "u", "r", "c", "e">>, T_resource>>,
    <<<<"s", "l", "i", "d", "e">>, T_slide>>,
    <<<<"s", "l", "i", "d", "e", "s">>, T_slide>>,
    <<<<"e", "x", "e", "r", "c", "i", "s", "e">>, T_exercise>>,
    <<<<"e", "x", "e", "r", "c", "i", "c", "e">>, T_exercise>>,
    <<<<"e", "x", "e", "r", "c", "i", "s", "e", "s">>, T_exercise>>,
    <<<<"c", "a", "s", "e">>, T_exercise>>,
    <<<<"c", "a", "s", "e", "-", "s", "t", "u", "d", "y">>, T_exercise>>,
    <<<<"c", "a", "s", "e", " ", "s", "t", "u", "d", "y">>, T_exercise>>,
    <<<<"é", "t", "u", "d", "e", " ", "d", "e", " ", "c", "a", "s">>, T_exercise>>,
    <<<<"e", "t", "u", "d", "e", " ", "d", "e", " ", "c", "a", "s">>, T_exercise>>,
    <<<<"t", "p">>, T_tp>>,
    <<<<"t", "r", "a", "v", "a", "u", "x", "-", "p", "r", "a", "t", "i", "q", "u", "e", "s">>, T_tp>>,
    <<<<"t", "r", "a", "v", "a", "u", "x", " ", "p", "r", "a", "t", "i", "q", "u", "e", "s">>, T_tp>>,
    <<<<"g", "a", "m", "e">>, T_game>>,
    <<<<"j", "e", "u">>, T_game>>,
    <<<<"g", "a", "m", "e", "s">>, T_game>>,
    <<<<"j", "e", "u", "x">>, T_game>> }

typeMapKeys == { kv[1] : kv \in typeMap }

\* validateItemType: Some(valid type), or None when it throws
validateItemType(type) ==
  IF type = <<>> THEN None
  ELSE LET normalizedType == trim(toLowerCase(type))
       IN IF normalizedType \in typeMapKeys
          THEN Some((CHOOSE kv \in typeMap : kv[1] = normalizedType)[2])
          ELSE None

\* ------------------------------------------------------------------ game registry
\* A game payload (item content of type game, chapter game_content): the
\* fields the registry validators read.  {} is the payload with no field.
EmptyObject == [gameType |-> None, pairs |-> None]

Pair(i) == [term |-> "term" \o ToString(i), definition |-> "def" \o ToString(i)]

\* gameRegistry.register({gameType: 'matching', validateConfig})
validateConfig_matching(config) ==
  IsSome(config.pairs) /\ Len(Val(config.pairs)) > 0

RegisteredGameTypes ==
  {"matching", "column-matching", "api-types", "format-files",
   "json-file-types"}

\* the registered validator of the payload's gameType; no gameType and an
\* unregistered gameType have no validator that accepts the payload.  A
\* payload here carries no field but pairs, so the validators of the other
\* games, which read other arrays, reject it.
GamePayloadValid(config) ==
  /\ IsSome(config.gameType)
  /\ Val(config.gameType) \in RegisteredGameTypes
  /\ IF Val(config.gameType) = "matching"
     THEN validateConfig_matching(config)
     ELSE FALSE

\* ------------------------------------------------------------------ store
\* Rows are kept in insertion order; ids are assigned by the store.
VARIABLES courses, modules, items, chapters, nextId

storeVars == <<courses, modules, items, chapters, nextId>>

\* .order('position', { ascending: true }): stable, ties keep insertion order
RECURSIVE InsertSorted(_, _)
InsertSorted(r, s) ==
  IF s = <<>> THEN <<r>>
  ELSE IF r.position < Head(s).position THEN <<r>> \o s
       ELSE <<Head(s)>> \o InsertSorted(r, Tail(s))

RECURSIVE OrderByPosition(_)
OrderByPosition(s) ==
  IF s = <<>> THEN <<>>
  ELSE InsertSorted(s[Len(s)], OrderByPosition(SubSeq(s, 1, Len(s) - 1)))

ModulesOf(cid) == SelectSeq(modules, LAMBDA m : m.course_id = cid)
ItemsOf(mid) == SelectSeq(items, LAMBDA i : i.module_id = mid)
ChaptersOf(iid) == SelectSeq(chapters, LAMBDA c : c.item_id = iid)

Ids(rows) == { rows[k].id : k \in 1..Len(rows) }

\* rows inserted by one insert statement: ids nextId, nextId + 1, ...
WithIds(rows, first) == [k \in 1..Len(rows) |-> [rows[k] EXCEPT !.id = first + k - 1]]

\* ------------------------------------------------------------------ documents
\* CourseJson / ModuleJson / ItemJson / ChapterJson.  A field the JSON may
\* omit is an option; item types are raw character sequences.
mkChapter(title, position, content, type, game_content) ==
  [title |-> title, position |-> position, content |-> content,
   type |-> type, game_content |-> game_content]

mkItem(type, title, position, published, content, chs) ==
  [type |-> type, title |-> title, position |-> position,
   published |-> published, content |-> content, chapters |-> chs]

mkModule(title, position, its) ==
  [title |-> title, position |-> position, items |-> its]

mkCourse(title, mods) == [title |-> title, modules |-> mods]

\* ------------------------------------------------------------------ export
\* fetchCourse, second query: modules with their items, ordered by position
FetchModules(cid) ==
  LET ms == OrderByPosition(ModulesOf(cid))
  IN [k \in 1..Len(ms) |->
        [id |-> ms[k].id, title |-> ms[k].title, position |-> ms[k].position,
         items |-> ItemsOf(ms[k].id)]]

\* allItemIds = modulesData.flatMap(m => m.items.map(i => i.id))
AllItemIds(modulesData) ==
  UNION { Ids(modulesData[k].items) : k \in 1..Len(modulesData) }

\* fetchCourse, third query: chapters of these items, ordered by position
FetchChapters(itemIds) ==
  OrderByPosition(SelectSeq(chapters, LAMBDA c : c.item_id \in itemIds))

\* chaptersMap.get(item.id) || undefined, each chapter reduced to
\* {title, position, content: ch.content || undefined}
ChaptersMapGet(chaptersData, iid) ==
  LET own == SelectSeq(chaptersData, LAMBDA c : c.item_id = iid)
  IN IF own = <<>> THEN None
     ELSE Some([k \in 1..Len(own) |->
                 mkChapter(own[k].title, own[k].position, own[k].content,
                           None, None)])

\* the courseJson literal built by fetchCourse
BuildCourseJson(courseData, modulesData, chaptersData) ==
  mkCourse(courseData.title,
    [k \in 1..Len(modulesData) |->
      LET sorted == OrderByPosition(modulesData[k].items)
      IN mkModule(modulesData[k].title, modulesData[k].position,
           [j \in 1..Len(sorted) |->
             mkItem(sorted[j].type, sorted[j].title, Some(sorted[j].position),
                    Some(sorted[j].published),
                    Some(OrElse(sorted[j].content, EmptyObject)),
                    ChaptersMapGet(chaptersData, sorted[j].id))])])

CourseRow(cid) == CHOOSE c \in Range(courses) : c.id = cid

\* fetchCourse with its three queries answered by one state of the store
ExportCourse(cid) ==
  LET modulesData == FetchModules(cid)
  IN BuildCourseJson(CourseRow(cid), modulesData,
                     FetchChapters(AllItemIds(modulesData)))

\* ------------------------------------------------------------------ document family
\* The Documents the editors hold: nMods modules of nItems items each; the
\* positions follow a scheme; the last item of the last
\* module carries one feature, every other item is a plain resource.
PosSchemes == {"index", "dup", "disorder"}
Features == {"plain", "synonym", "badtype", "gameNoPairs", "gameNoType",
             "chapContent", "chapDup", "chapEmpty", "chapGame",
             "chapGameBad", "chapUnknownKind", "chapBoth"}

\* module k of n: its index, always 0, or the reverse of its index
ModulePosition(scheme, k, n) ==
  CASE scheme = "index" -> k - 1
    [] scheme = "dup" -> 0
    [] scheme = "disorder" -> n - k

\* item k: its index, always 0, or no position at all
ItemPosition(scheme, k) ==
  CASE scheme = "index" -> Some(k - 1)
    [] scheme = "dup" -> Some(0)
    [] scheme = "disorder" -> None

MatchingGame(pairs) == [gameType |-> Some("matching"), pairs |-> pairs]

FeatureItem(f, title, pos) ==
  CASE f = "plain" ->
         mkItem(T_resource, title, pos, None, None, None)
    [] f = "synonym" ->
         mkItem(<<" ", "J", "e", "u">>, title, pos, Some(FALSE),
                Some(MatchingGame(Some(<<Pair(1)>>))), None)
    [] f = "badtype" ->
         mkItem(<<"b", "o", "g", "u", "s">>, title, pos, Some(TRUE), None, None)
    [] f = "gameNoPairs" ->
         mkItem(T_game, title, pos, Some(TRUE),
                Some(MatchingGame(Some(<<>>))), None)
    [] f = "gameNoType" ->
         mkItem(T_game, title, pos, Some(TRUE),
                Some([gameType |-> None, pairs |-> Some(<<Pair(1)>>)]), None)
    [] f = "chapContent" ->
         mkItem(T_slide, title, pos, Some(TRUE), None,
                Some(<<mkChapter("C1", 0, Some("body1"), None, None),
                       mkChapter("C2", 1, Some("body2"), Some("content"), None)>>))
    [] f = "chapDup" ->
         mkItem(T_slide, title, pos, Some(TRUE), None,
                Some(<<mkChapter("C1", 0, Some("body1"), None, None),
                       mkChapter("C2", 0, None, None, None)>>))
    [] f = "chapEmpty" ->
         mkItem(T_tp, title, pos, Some(TRUE), None, Some(<<>>))
    [] f = "chapGame" ->
         mkItem(T_exercise, title, pos, Some(TRUE), None,
                Some(<<mkChapter("C1", 0, None, Some("game"),
                                 Some(MatchingGame(Some(<<Pair(1)>>))))>>))
    [] f = "chapGameBad" ->
         mkItem(T_exercise, title, pos, Some(TRUE), None,
                Some(<<mkChapter("C1", 0, None, Some("game"),
                                 Some(MatchingGame(Some(<<>>))))>>))
    [] f = "chapUnknownKind" ->
         mkItem(T_resource, title, pos, Some(TRUE), None,
                Some(<<mkChapter("C1", 0, Some("body1"), Some("quiz"), None)>>))
    [] f = "chapBoth" ->
         mkItem(T_slide, title, pos, Some(TRUE), None,
                Some(<<mkChapter("C1", 0, Some("body1"), Some("game"),
                                 Some(MatchingGame(Some(<<Pair(1)>>))))>>))

DocOf(nMods, nItems, scheme, f) ==
  mkCourse("Course",
    [m \in 1..nMods |->
      mkModule("M" \o ToString(m), ModulePosition(scheme, m, nMods),
        [k \in 1..nItems |->
          FeatureItem(IF m = nMods /\ k = nItems THEN f ELSE "plain",
                      "I" \o ToString(m) \o ToString(k),
                      ItemPosition(scheme, k))])])

\* every position scheme on plain items, every feature on index positions
Docs ==
  { DocOf(n, k, scheme, "plain") :
      n \in 0..MaxModules, k \in 0..MaxItems, scheme \in PosSchemes }
  \cup
  { DocOf(n, k, "index", f) :
      n \in 0..MaxModules, k \in 0..MaxItems, f \in Features }

\* ------------------------------------------------------------------ JSON course editor
\* ed[e]: one mounted AdminCourseEditJson component (an editor session).
\* faults: store operations that have failed so far.
VARIABLES ed, faults

\* ie: the mounted AdminItemEditJson component (JSON item editor)
VARIABLES ie

\* fe: the mounted AdminCourseEdit component (course form editor)
\* cm: the mounted ChapterManager component
\* sent: every id, course_id, module_id and item_id value that a save path of
\*   the form editor or of the ChapterManager has put in a row or in a filter
\*   sent to the store (kept for the properties only)
VARIABLES fe, cm, sent

\* cg: the mounted CardMatchingGame; col: the mounted ColumnMatchingGame
VARIABLES cg, col

\* rg: one game payload on its way through extractGameContent and the
\* validator of its game
VARIABLES rg

\* au: the mounted AuthProvider with the ProtectedRoute of the current route
VARIABLES au

\* what a step of one component leaves alone
outsideCourseJson == <<ie, fe, cm, sent, cg, col, rg, au>>
outsideItemJson == <<ed, fe, cm, sent, cg, col, rg, au>>
outsideForm == <<ed, ie, cm, cg, col, rg, au>>
outsideChapters == <<ed, ie, fe, cg, col, rg, au>>
outsideCards ==
  <<courses, modules, items, chapters, nextId, ed, faults, ie, fe, cm, sent, col,
    rg, au>>
outsideColumns ==
  <<courses, modules, items, chapters, nextId, ed, faults, ie, fe, cm, sent, cg,
    rg, au>>
outsideRegistry ==
  <<courses, modules, items, chapters, nextId, ed, faults, ie, fe, cm, sent, cg,
    col, au>>
outsideAuth ==
  <<courses, modules, items, chapters, nextId, ed, faults, ie, fe, cm, sent, cg,
    col, rg>>

Editors == {1, 2}

\* the default template of the create mode
defaultJson == mkCourse("Nouveau cours", <<>>)

NoFetch == [pc |-> "idle", cid |-> 0, courseData |-> None, modulesData |-> <<>>]

NoLocals ==
  [doc |-> defaultJson, isNew |-> FALSE, finalCourseId |-> 0,
   oldModules |-> {}, mi |-> 0, moduleId |-> 0, savedItems |-> <<>>, ii |-> 0]

Snapshot ==
  [courses |-> courses, modules |-> modules, items |-> items,
   chapters |-> chapters]

NoSnapshot ==
  [courses |-> <<>>, modules |-> <<>>, items |-> <<>>, chapters |-> <<>>]

\* the course's rows without their ids, in insertion order
SubtreeOf(cid) ==
  LET ms == ModulesOf(cid)
  IN [k \in 1..Len(ms) |->
       [title |-> ms[k].title, position |-> ms[k].position,
        items |->
          LET its == ItemsOf(ms[k].id)
          IN [j \in 1..Len(its) |->
               [type |-> its[j].type, title |-> its[j].title,
                position |-> its[j].position, published |-> its[j].published,
                content |-> its[j].content,
                chapters |->
                  LET chs == ChaptersOf(its[j].id)
                  IN [c \in 1..Len(chs) |->
                       [title |-> chs[c].title, position |-> chs[c].position,
                        content |-> chs[c].content, type |-> chs[c].type,
                        game_content |-> chs[c].game_content,
                        published |-> chs[c].published]]]]]]

CourseExists(cid) == \E c \in Range(courses) : c.id = cid

\* History of an editor's saves, kept for the properties only:
\*   doc, isNew, failed: the Document of the last save, whether it created
\*     the course, and its failed store calls
\*   pre: the store when the last save began
\*   prevDoc, prevClean: the Document of the save before it, and whether that
\*     save returned without an error or a failed store call
\*   preExport, preTree: the course as exported / stored when the last save began
NoHistory ==
  [doc |-> defaultJson, isNew |-> FALSE, failed |-> {}, pre |-> NoSnapshot,
   prevDoc |-> None, prevClean |-> FALSE, preExport |-> None,
   preTree |-> <<>>]

\* an editor session that is not open
EditorOff ==
  [pc |-> "off", courseId |-> 0, user |-> "", file |-> defaultJson,
   parsedJson |-> None, loading |-> FALSE, error |-> "", saves |-> 0,
   sv |-> NoLocals, rl |-> NoFetch, bg |-> NoFetch,
   result |-> "none", g |-> NoHistory]

\* a store call that failed is remembered
Failed(r, op, ok) == IF ok THEN r ELSE [r EXCEPT !.g.failed = @ \cup {op}]

\* mount with courseId = 'new' (0): the useEffect installs the template
EditorNew(u, file) ==
  [EditorOff EXCEPT !.pc = "idle", !.user = u, !.file = file,
                    !.parsedJson = Some(defaultJson)]

\* mount on an existing course: loading, and the useEffect calls fetchCourse
EditorOpen(u, file, cid) ==
  [EditorOff EXCEPT !.pc = "idle", !.user = u, !.file = file,
                    !.courseId = cid, !.loading = TRUE,
                    !.bg = [NoFetch EXCEPT !.pc = "course", !.cid = cid]]

CanFail == faults < MaxFaults

\* every store call of the code either succeeds or fails
Outcome(ok) ==
  /\ (~ok => CanFail)
  /\ faults' = IF ok THEN faults ELSE faults + 1

\* ---- fetchCourse (lines 48-129), run by the mount effect ("bg") or
\* ---- awaited at the end of handleSave ("rl"); f is the running fetch.
\* catch: setError('Erreur lors du chargement.'); finally: setLoading(false)
FetchFailed(r, which) ==
  [r EXCEPT ![which] = NoFetch, !.error = "load", !.loading = FALSE]

FetchDone(r, which, modulesData, chaptersData) ==
  [r EXCEPT ![which] = NoFetch, !.loading = FALSE,
            !.parsedJson =
               Some(BuildCourseJson(Val(r[which].courseData), modulesData,
                                    chaptersData))]

\* after handleSave's awaited fetchCourse returns, finally: setSaving(false)
SaveReturned(r, which) ==
  IF which = "rl"
  THEN [r EXCEPT !.pc = "idle", !.result = "ok", !.sv = NoLocals]
  ELSE r

Running(e, which) ==
  /\ ed[e].pc # "off"
  /\ (which = "rl" => ed[e].pc = "reload")

\* const { data: courseData, error: courseError } = await ...single()
FetchCourseRow(e, which) ==
  /\ Running(e, which)
  /\ ed[e][which].pc = "course"
  /\ \E ok \in BOOLEAN :
       /\ Outcome(ok)
       /\ ed' = [ed EXCEPT ![e] =
            IF ok /\ \E c \in Range(courses) : c.id = ed[e][which].cid
            THEN [@ EXCEPT ![which].pc = "modules",
                           ![which].courseData = Some(CourseRow(ed[e][which].cid))]
            ELSE SaveReturned(
                   Failed(FetchFailed(@, which), which \o ".course", ok),
                   which)]
  /\ UNCHANGED storeVars
  /\ UNCHANGED outsideCourseJson

\* modules with items; then chapters only when allItemIds.length > 0
FetchModulesRows(e, which) ==
  /\ Running(e, which)
  /\ ed[e][which].pc = "modules"
  /\ \E ok \in BOOLEAN :
       /\ Outcome(ok)
       /\ ed' = [ed EXCEPT ![e] =
            IF ~ok
            THEN SaveReturned(
                   Failed(FetchFailed(@, which), which \o ".modules", ok),
                   which)
            ELSE LET modulesData == FetchModules(@[which].cid)
                 IN IF AllItemIds(modulesData) # {}
                    THEN [@ EXCEPT ![which].pc = "chapters",
                                   ![which].modulesData = modulesData]
                    ELSE SaveReturned(
                           FetchDone(@, which, modulesData, <<>>), which)]
  /\ UNCHANGED storeVars
  /\ UNCHANGED outsideCourseJson

\* const { data: chaptersData } = await ...: the error is not read
FetchChaptersRows(e, which) ==
  /\ Running(e, which)
  /\ ed[e][which].pc = "chapters"
  /\ \E ok \in BOOLEAN :
       /\ Outcome(ok)
       /\ ed' = [ed EXCEPT ![e] =
            LET modulesData == @[which].modulesData
                chaptersData ==
                  IF ok THEN FetchChapters(AllItemIds(modulesData)) ELSE <<>>
            IN SaveReturned(
                 Failed(FetchDone(@, which, modulesData, chaptersData),
                        which \o ".chapters", ok), which)]
  /\ UNCHANGED storeVars
  /\ UNCHANGED outsideCourseJson

\* handleImport: the file's JSON becomes the edited Document
handleImport(e) ==
  /\ ed[e].pc = "idle"
  /\ ~ed[e].loading
  /\ ed[e].parsedJson # Some(ed[e].file)
  /\ ed' = [ed EXCEPT ![e].parsedJson = Some(ed[e].file), ![e].error = ""]
  /\ UNCHANGED <<storeVars, faults>>
  /\ UNCHANGED outsideCourseJson

\* ---- handleSave (lines 145-395), one action per awaited store call
\* catch: setError('Erreur lors de la sauvegarde: ...'); finally: setSaving(false)
Throw(r, message) ==
  [r EXCEPT !.pc = "idle", !.error = message, !.result = "error",
            !.sv = NoLocals]

\* return of handleSave when nothing was thrown
Finish(r) ==
  IF r.sv.isNew
  THEN [r EXCEPT !.pc = "idle", !.result = "ok", !.sv = NoLocals]
  ELSE [r EXCEPT !.pc = "reload",
                 !.rl = [NoFetch EXCEPT !.pc = "course", !.cid = r.courseId]]

\* for (const module of parsedJson.modules): the next iteration, or the end
NextModule(r) ==
  IF r.sv.mi < Len(r.sv.doc.modules)
  THEN [r EXCEPT !.pc = "insertModule", !.sv.mi = @ + 1, !.sv.moduleId = 0,
                 !.sv.savedItems = <<>>, !.sv.ii = 0]
  ELSE Finish(r)

HasChapters(item) == IsSome(item.chapters) /\ Len(Val(item.chapters)) > 0

\* for (let i = 0; i < savedItems.length; i++): the next item after index i
\* whose originalItem.chapters is non-empty, or the next module
NextChapters(r, i) ==
  LET its == r.sv.doc.modules[r.sv.mi].items
      rest == { j \in (i + 1)..Len(r.sv.savedItems) : HasChapters(its[j]) }
  IN IF rest # {}
     THEN [r EXCEPT !.pc = "insertChapters",
                    !.sv.ii = CHOOSE j \in rest : \A k \in rest : j <= k]
     ELSE NextModule(r)

\* handleSave entered: guards, setSaving(true), setError('')
StartSave(e) ==
  /\ ed[e].pc = "idle"
  /\ ~ed[e].loading
  /\ ed[e].saves < MaxSaves
  /\ ed' = [ed EXCEPT ![e] =
       IF @.parsedJson = None
       THEN [@ EXCEPT !.error = "invalid", !.saves = @ + 1]
       ELSE [@ EXCEPT !.pc = IF ed[e].courseId = 0 THEN "insertCourse"
                              ELSE "checkCourse",
                      !.error = "", !.saves = @ + 1, !.result = "none",
                      !.g = [doc |-> Val(ed[e].parsedJson),
                             isNew |-> (ed[e].courseId = 0), failed |-> {},
                             pre |-> Snapshot,
                             prevDoc |-> IF ed[e].result = "none" THEN None
                                         ELSE Some(ed[e].g.doc),
                             prevClean |-> ed[e].result = "ok"
                                           /\ ed[e].g.failed = {},
                             preExport |->
                               IF CourseExists(ed[e].courseId)
                               THEN Some(ExportCourse(ed[e].courseId))
                               ELSE None,
                             preTree |-> SubtreeOf(ed[e].courseId)],
                      !.sv = [NoLocals EXCEPT !.doc = Val(ed[e].parsedJson),
                                              !.isNew = (ed[e].courseId = 0)]]]
  /\ UNCHANGED <<storeVars, faults>>
  /\ UNCHANGED outsideCourseJson

\* the module loop begins (create mode skips the deletion of old modules)
EnterLoop(r) == NextModule([r EXCEPT !.sv.mi = 0])

\* supabase.from('courses').insert(courseData).select().single(), then
\* navigate(`/admin/courses/${data.id}/json`): the route param changes and
\* the mount effect runs fetchCourse for the new id
InsertCourse(e) ==
  /\ ed[e].pc = "insertCourse"
  /\ \E ok \in BOOLEAN :
       /\ Outcome(ok)
       /\ IF ok
          THEN /\ courses' = Append(courses,
                     [id |-> nextId, title |-> ed[e].sv.doc.title,
                      created_by |-> ed[e].user])
               /\ nextId' = nextId + 1
               /\ ed' = [ed EXCEPT ![e] =
                    EnterLoop([@ EXCEPT !.sv.finalCourseId = nextId,
                                        !.courseId = nextId,
                                        !.bg = [NoFetch EXCEPT
                                                  !.pc = "course",
                                                  !.cid = nextId]])]
          ELSE /\ ed' = [ed EXCEPT ![e] = Failed(Throw(@, "store"), "insertCourse", FALSE)]
               /\ UNCHANGED <<courses, nextId>>
  /\ UNCHANGED <<modules, items, chapters>>
  /\ UNCHANGED outsideCourseJson

\* select('id').eq('id', courseId).single(): the course must exist
CheckCourse(e) ==
  /\ ed[e].pc = "checkCourse"
  /\ \E ok \in BOOLEAN :
       /\ Outcome(ok)
       /\ ed' = [ed EXCEPT ![e] =
            IF ok /\ \E c \in Range(courses) : c.id = ed[e].courseId
            THEN [@ EXCEPT !.pc = "updateCourse"]
            ELSE Failed(Throw(@, "missing"), "checkCourse", ok)]
  /\ UNCHANGED storeVars
  /\ UNCHANGED outsideCourseJson

\* update(courseData).eq('id', courseId); courseData carries created_by: user.id
UpdateCourse(e) ==
  /\ ed[e].pc = "updateCourse"
  /\ \E ok \in BOOLEAN :
       /\ Outcome(ok)
       /\ IF ok
          THEN /\ courses' =
                    [k \in 1..Len(courses) |->
                       IF courses[k].id = ed[e].courseId
                       THEN [courses[k] EXCEPT !.title = ed[e].sv.doc.title,
                                               !.created_by = ed[e].user]
                       ELSE courses[k]]
               /\ ed' = [ed EXCEPT ![e].pc = "selectOld",
                                   ![e].sv.finalCourseId = ed[e].courseId]
          ELSE /\ ed' = [ed EXCEPT ![e] = Failed(Throw(@, "store"), "updateCourse", FALSE)]
               /\ UNCHANGED courses
  /\ UNCHANGED <<modules, items, chapters, nextId>>
  /\ UNCHANGED outsideCourseJson

\* const { data: oldModules } = await ...select('id'): the error is not read
SelectOldModules(e) ==
  /\ ed[e].pc = "selectOld"
  /\ \E ok \in BOOLEAN :
       /\ Outcome(ok)
       /\ ed' = [ed EXCEPT ![e] =
            LET oldModules ==
                  IF ok THEN Ids(ModulesOf(@.sv.finalCourseId)) ELSE {}
            IN IF oldModules # {}
               THEN [@ EXCEPT !.pc = "deleteOld", !.sv.oldModules = oldModules]
               ELSE EnterLoop(Failed(@, "selectOld", ok))]
  /\ UNCHANGED storeVars
  /\ UNCHANGED outsideCourseJson

\* ON DELETE CASCADE of the schema: items of the modules, chapters of the items
DeleteModulesCascade(ids) ==
  LET gone == { items[k].id : k \in { k \in 1..Len(items) :
                                        items[k].module_id \in ids } }
  IN /\ modules' = SelectSeq(modules, LAMBDA m : m.id \notin ids)
     /\ items' = SelectSeq(items, LAMBDA i : i.module_id \notin ids)
     /\ chapters' = SelectSeq(chapters, LAMBDA c : c.item_id \notin gone)

\* what the delete statement of handleSave removes
\* a deletion that removes one of the old modules only, as .eq('id', ...)
\* on the first id would
DeleteOldRowsFirstOnly(ids) ==
  DeleteModulesCascade({ i \in ids : \A o \in ids : i <= o })

DeleteOldRows(ids) == DeleteModulesCascade(ids)

\* await supabase.from('modules').delete().in('id', ...): the result is not read
DeleteOldModules(e) ==
  /\ ed[e].pc = "deleteOld"
  /\ \E ok \in BOOLEAN :
       /\ Outcome(ok)
       /\ IF ok
          THEN DeleteOldRows(ed[e].sv.oldModules)
          ELSE UNCHANGED <<modules, items, chapters>>
       /\ ed' = [ed EXCEPT ![e] = EnterLoop(Failed(@, "deleteOld", ok))]
  /\ UNCHANGED <<courses, nextId>>
  /\ UNCHANGED outsideCourseJson

\* position: module.position
ModulePositionStored(module, index) == module.position

\* the row of supabase.from('modules').insert({course_id, title, position})
ModuleRow(cid, module, index) ==
  [id |-> 0, course_id |-> cid, title |-> module.title,
   position |-> ModulePositionStored(module, index)]

\* position: item.position ?? index
ItemPositionStored(item, index) == OrElse(item.position, index)

\* type: validatedType of the itemsData literal
ItemTypeStored(item) == Val(validateItemType(item.type))

\* one element of itemsData (lines 297-306); index is zero-based
ItemRow(mid, item, index) ==
  [id |-> 0, module_id |-> mid, type |-> ItemTypeStored(item),
   title |-> item.title, position |-> ItemPositionStored(item, index),
   published |-> (item.published # Some(FALSE)),
   content |-> Some(OrElse(item.content, EmptyObject))]

\* module.items.map(...) throws at the first item validateItemType rejects
ItemsDataThrows(its) ==
  \E k \in 1..Len(its) : validateItemType(its[k].type) = None

ItemsData(mid, its) == [k \in 1..Len(its) |-> ItemRow(mid, its[k], k - 1)]

\* (ch.type === 'content' || ch.type === 'game') ? ch.type : 'content'
ChapterValidType(ch) ==
  IF ch.type \in {Some("content"), Some("game")} THEN Val(ch.type)
  ELSE "content"

\* position: ch.position
ChapterPositionStored(ch, index) == ch.position

\* one element of chaptersData (lines 338-346)
ChapterRow(iid, ch, index) ==
  [id |-> 0, item_id |-> iid, title |-> ch.title,
   position |-> ChapterPositionStored(ch, index), content |-> ch.content,
   type |-> ChapterValidType(ch), game_content |-> ch.game_content,
   published |-> TRUE]

ChaptersData(iid, chs) ==
  [k \in 1..Len(chs) |-> ChapterRow(iid, chs[k], k - 1)]

\* insert of one module, then the synchronous itemsData map of its items
InsertModule(e) ==
  /\ ed[e].pc = "insertModule"
  /\ \E ok \in BOOLEAN :
       /\ Outcome(ok)
       /\ LET module == ed[e].sv.doc.modules[ed[e].sv.mi]
          IN IF ok
             THEN /\ modules' = Append(modules,
                        [ModuleRow(ed[e].sv.finalCourseId, module,
                                   ed[e].sv.mi - 1) EXCEPT !.id = nextId])
                  /\ nextId' = nextId + 1
                  /\ ed' = [ed EXCEPT ![e] =
                       IF Len(module.items) = 0 THEN NextModule(@)
                       ELSE IF ItemsDataThrows(module.items)
                       THEN Throw(@, "validation")
                       ELSE [@ EXCEPT !.pc = "insertItems",
                                      !.sv.moduleId = nextId]]
             ELSE /\ ed' = [ed EXCEPT ![e] =
                       Failed(Throw(@, "store"), "insertModule", FALSE)]
                  /\ UNCHANGED <<modules, nextId>>
  /\ UNCHANGED <<courses, items, chapters>>
  /\ UNCHANGED outsideCourseJson

\* supabase.from('items').insert(itemsData).select(): one statement
InsertItems(e) ==
  /\ ed[e].pc = "insertItems"
  /\ \E ok \in BOOLEAN :
       /\ Outcome(ok)
       /\ LET its == ed[e].sv.doc.modules[ed[e].sv.mi].items
              rows == WithIds(ItemsData(ed[e].sv.moduleId, its), nextId)
          IN IF ok
             THEN /\ items' = items \o rows
                  /\ nextId' = nextId + Len(rows)
                  /\ ed' = [ed EXCEPT ![e] =
                       NextChapters(
                         [@ EXCEPT !.sv.savedItems =
                                      [k \in 1..Len(rows) |-> rows[k].id]], 0)]
             ELSE /\ ed' = [ed EXCEPT ![e] =
                       Failed(Throw(@, "store"), "insertItems", FALSE)]
                  /\ UNCHANGED <<items, nextId>>
  /\ UNCHANGED <<courses, modules, chapters>>
  /\ UNCHANGED outsideCourseJson

\* supabase.from('chapters').insert(chaptersData): chaptersError is only logged
InsertChapters(e) ==
  /\ ed[e].pc = "insertChapters"
  /\ \E ok \in BOOLEAN :
       /\ Outcome(ok)
       /\ LET i == ed[e].sv.ii
              originalItem == ed[e].sv.doc.modules[ed[e].sv.mi].items[i]
              rows == WithIds(ChaptersData(ed[e].sv.savedItems[i],
                                           Val(originalItem.chapters)), nextId)
          IN /\ IF ok
                THEN /\ chapters' = chapters \o rows
                     /\ nextId' = nextId + Len(rows)
                ELSE UNCHANGED <<chapters, nextId>>
             /\ ed' = [ed EXCEPT ![e] =
                  NextChapters(Failed(@, "insertChapters", ok), i)]
  /\ UNCHANGED <<courses, modules, items>>
  /\ UNCHANGED outsideCourseJson

\* every step of one JSON course editor session
EditorStep(e) ==
  \/ handleImport(e)
  \/ StartSave(e)
  \/ InsertCourse(e)
  \/ CheckCourse(e)
  \/ UpdateCourse(e)
  \/ SelectOldModules(e)
  \/ DeleteOldModules(e)
  \/ InsertModule(e)
  \/ InsertItems(e)
  \/ InsertChapters(e)
  \/ \E which \in {"bg", "rl"} :
       \/ FetchCourseRow(e, which)
       \/ FetchModulesRows(e, which)
       \/ FetchChaptersRows(e, which)


\* ------------------------------------------------------------------ JSON item editor
\* ie: the mounted AdminItemEditJson component.  itemId 0 is 'new',
\* moduleIdFromUrl 0 is an URL without ?module_id.

\* raw type strings: the enumeration, synonyms of the course importer,
\* an unknown word, each also capitalised and padded with blanks
UpperFirst(w) ==
  LET c == w[1]
      u == CASE c = "r" -> "R" [] c = "s" -> "S" [] c = "e" -> "E"
             [] c = "t" -> "T" [] c = "g" -> "G" [] c = "j" -> "J"
             [] c = "b" -> "B" [] OTHER -> c
  IN <<u>> \o SubSeq(w, 2, Len(w))

TypeWords ==
  ItemTypes \cup {<<"j", "e", "u">>, <<"e", "x", "e", "r", "c", "i", "c", "e">>,
                  <<"b", "o", "g", "u", "s">>}

RawTypes ==
  TypeWords \cup { UpperFirst(w) : w \in TypeWords }
            \cup { <<" ">> \o w \o <<" ">> : w \in TypeWords }

ItemTitles == {<<"T">>, <<" ", "T", " ">>, <<" ">>}

ItemChapterSets ==
  {None, Some(<<>>),
   Some(<<mkChapter("C1", 0, Some("body1"), None, None),
          mkChapter("C2", 1, None, Some("game"),
                    Some(MatchingGame(Some(<<Pair(1)>>))))>>)}

\* the item files offered to handleImport
ItemFiles ==
  { mkItem(t, title, Some(0), Some(TRUE), None, chs) :
      t \in RawTypes, title \in {<<"T">>}, chs \in ItemChapterSets }
  \cup
  { mkItem(T_slide, title, Some(1), None, None, None) : title \in ItemTitles }

\* the default template of the create mode
defaultItemJson ==
  mkItem(T_resource, <<"N", "o", "u", "v", "e", "l">>, Some(0), Some(TRUE),
         Some(EmptyObject), None)

NoItemFetch == [pc |-> "idle", id |-> 0, itemData |-> None]

NoItemLocals ==
  [doc |-> defaultItemJson, isNew |-> FALSE, moduleId |-> 0, finalItemId |-> 0]

ItemEditorOff ==
  [pc |-> "off", itemId |-> 0, moduleIdFromUrl |-> 0, item |-> None,
   file |-> defaultItemJson, parsedJson |-> None, loading |-> FALSE,
   error |-> "", saves |-> 0, sv |-> NoItemLocals, rl |-> NoItemFetch,
   bg |-> NoItemFetch, result |-> "none", doc |-> defaultItemJson,
   failed |-> {}]

\* mount with itemId = 'new': the useEffect installs the template
ItemEditorNew(file, mid) ==
  [ItemEditorOff EXCEPT !.pc = "idle", !.file = file, !.moduleIdFromUrl = mid,
                        !.parsedJson = Some(defaultItemJson)]

\* mount on an existing item: loading, and the useEffect calls fetchItem
ItemEditorOpen(file, iid) ==
  [ItemEditorOff EXCEPT !.pc = "idle", !.file = file, !.itemId = iid,
                        !.loading = TRUE,
                        !.bg = [NoItemFetch EXCEPT !.pc = "item", !.id = iid]]

ItemFailed(r, op, ok) == IF ok THEN r ELSE [r EXCEPT !.failed = @ \cup {op}]

ItemRowOf(iid) == CHOOSE i \in Range(items) : i.id = iid

\* fetchItem: the JSON built from the item row and its chapters
BuildItemJson(itemData, chaptersData) ==
  mkItem(itemData.type, itemData.title, Some(itemData.position),
         Some(itemData.published),
         Some(OrElse(itemData.content, EmptyObject)),
         Some([c \in 1..Len(chaptersData) |->
                 mkChapter(chaptersData[c].title, chaptersData[c].position,
                           chaptersData[c].content, None, None)]))

\* ---- fetchItem (lines 102-162), run by the mount effect ("bg") or awaited
\* ---- at the end of handleSave ("rl")
ItemFetchFailed(r, which) ==
  [r EXCEPT ![which] = NoItemFetch, !.error = "load", !.loading = FALSE]

ItemSaveReturned(r, which) ==
  IF which = "rl"
  THEN [r EXCEPT !.pc = "idle", !.result = "ok", !.sv = NoItemLocals]
  ELSE r

ItemFetchRunning(which) ==
  /\ ie.pc # "off"
  /\ (which = "rl" => ie.pc = "reload")

\* const { data: itemData, error: itemError } = await ...single()
FetchItemRow(which) ==
  /\ ItemFetchRunning(which)
  /\ ie[which].pc = "item"
  /\ \E ok \in BOOLEAN :
       /\ Outcome(ok)
       /\ ie' =
            IF ok /\ \E i \in Range(items) : i.id = ie[which].id
            THEN [ie EXCEPT ![which].pc = "chapters",
                            ![which].itemData = Some(ItemRowOf(ie[which].id)),
                            !.item = Some(ItemRowOf(ie[which].id))]
            ELSE ItemSaveReturned(
                   ItemFailed(ItemFetchFailed(ie, which), which \o ".item", ok),
                   which)
  /\ UNCHANGED storeVars
  /\ UNCHANGED outsideItemJson

\* const { data: chaptersData } = await ...: the error is not read
FetchItemChapters(which) ==
  /\ ItemFetchRunning(which)
  /\ ie[which].pc = "chapters"
  /\ \E ok \in BOOLEAN :
       /\ Outcome(ok)
       /\ LET chaptersData ==
                IF ok THEN OrderByPosition(ChaptersOf(ie[which].id)) ELSE <<>>
              done == [ie EXCEPT
                         ![which] = NoItemFetch, !.loading = FALSE,
                         !.parsedJson =
                            Some(BuildItemJson(Val(ie[which].itemData),
                                               chaptersData))]
          IN ie' = ItemSaveReturned(
                     ItemFailed(done, which \o ".chapters", ok), which)
  /\ UNCHANGED storeVars
  /\ UNCHANGED outsideItemJson

\* handleImport (lines 304-321): the file's JSON becomes the edited item
ItemHandleImport ==
  /\ ie.pc = "idle"
  /\ ~ie.loading
  /\ ie.parsedJson # Some(ie.file)
  /\ ie' = [ie EXCEPT !.parsedJson = Some(ie.file), !.error = ""]
  /\ UNCHANGED <<storeVars, faults>>
  /\ UNCHANGED outsideItemJson

\* ---- handleSave (lines 178-288)
ItemThrow(r, message) ==
  [r EXCEPT !.pc = "idle", !.error = message, !.result = "error",
            !.sv = NoItemLocals]

\* the early returns: no error is thrown, the message is set
ItemRefuse(r, message) ==
  [r EXCEPT !.error = message, !.result = "refused"]

\* moduleIdFromUrl || item?.module_id
ItemModuleId ==
  IF ie.moduleIdFromUrl # 0 THEN ie.moduleIdFromUrl
  ELSE IF IsSome(ie.item) THEN Val(ie.item).module_id ELSE 0

\* const itemData = {...}: the type is the Document's, as written
ItemData(mid, doc) ==
  [module_id |-> mid, type |-> doc.type, title |-> trim(doc.title),
   position |-> Val(doc.position), published |-> doc.published # Some(FALSE),
   content |-> Some(OrElse(doc.content, EmptyObject))]

ItemStartSave ==
  /\ ie.pc = "idle"
  /\ ~ie.loading
  /\ ie.saves < MaxSaves
  /\ LET r == [ie EXCEPT !.saves = @ + 1, !.failed = {},
                         !.doc = OrElse(ie.parsedJson, defaultItemJson)]
     IN ie' =
          IF ie.parsedJson = None THEN ItemRefuse(r, "invalid")
          ELSE IF trim(Val(ie.parsedJson).title) = <<>>
          THEN ItemRefuse(r, "title")
          ELSE IF ItemModuleId = 0 THEN ItemRefuse(r, "module")
          ELSE [r EXCEPT !.pc = IF ie.itemId = 0 THEN "insertItem"
                                ELSE "updateItem",
                         !.error = "", !.result = "none",
                         !.sv = [doc |-> Val(ie.parsedJson),
                                 isNew |-> (ie.itemId = 0),
                                 moduleId |-> ItemModuleId,
                                 finalItemId |-> ie.itemId]]
  /\ UNCHANGED <<storeVars, faults>>
  /\ UNCHANGED outsideItemJson

\* after the item row is written: the chapters of the Document, the reload
ItemFinish(r) ==
  IF r.sv.isNew
  THEN [r EXCEPT !.pc = "idle", !.result = "ok", !.sv = NoItemLocals]
  ELSE [r EXCEPT !.pc = "reload",
                 !.rl = [NoItemFetch EXCEPT !.pc = "item", !.id = r.itemId]]

ItemAfterDelete(r) ==
  IF Len(Val(r.sv.doc.chapters)) > 0
  THEN [r EXCEPT !.pc = "insertItemChapters"]
  ELSE ItemFinish(r)

ItemAfterRow(r) ==
  IF IsSome(r.sv.doc.chapters) /\ r.sv.finalItemId # 0
  THEN IF ~r.sv.isNew THEN [r EXCEPT !.pc = "deleteItemChapters"]
       ELSE ItemAfterDelete(r)
  ELSE ItemFinish(r)

\* supabase.from('items').insert(itemData).select().single(); navigate(...)
InsertItem ==
  /\ ie.pc = "insertItem"
  /\ \E ok \in BOOLEAN :
       /\ Outcome(ok)
       /\ IF ok
          THEN /\ items' = Append(items,
                  [id |-> nextId] @@ ItemData(ie.sv.moduleId, ie.sv.doc))
               /\ nextId' = nextId + 1
               /\ ie' = ItemAfterRow(
                    [ie EXCEPT !.sv.finalItemId = nextId, !.itemId = nextId,
                               !.moduleIdFromUrl = 0,
                               !.bg = [NoItemFetch EXCEPT !.pc = "item",
                                                          !.id = nextId]])
          ELSE /\ ie' = ItemFailed(ItemThrow(ie, "store"), "insertItem", ok)
               /\ UNCHANGED <<items, nextId>>
  /\ UNCHANGED <<courses, modules, chapters>>
  /\ UNCHANGED outsideItemJson

\* supabase.from('items').update(itemData).eq('id', itemId)
UpdateItem ==
  /\ ie.pc = "updateItem"
  /\ \E ok \in BOOLEAN :
       /\ Outcome(ok)
       /\ IF ok
          THEN /\ items' = [k \in 1..Len(items) |->
                  IF items[k].id = ie.sv.finalItemId
                  THEN [id |-> items[k].id] @@ ItemData(ie.sv.moduleId, ie.sv.doc)
                  ELSE items[k]]
               /\ ie' = ItemAfterRow(ie)
          ELSE /\ ie' = ItemFailed(ItemThrow(ie, "store"), "updateItem", ok)
               /\ UNCHANGED items
  /\ UNCHANGED <<courses, modules, chapters, nextId>>
  /\ UNCHANGED outsideItemJson

\* await supabase.from('chapters').delete().eq('item_id', ...): the result
\* is not read
DeleteItemChapters ==
  /\ ie.pc = "deleteItemChapters"
  /\ \E ok \in BOOLEAN :
       /\ Outcome(ok)
       /\ chapters' = IF ok
                      THEN SelectSeq(chapters,
                             LAMBDA c : c.item_id # ie.sv.finalItemId)
                      ELSE chapters
       /\ ie' = ItemFailed(ItemAfterDelete(ie), "deleteItemChapters", ok)
  /\ UNCHANGED <<courses, modules, items, nextId>>
  /\ UNCHANGED outsideItemJson

\* const chaptersData = parsedJson.chapters.map(...)
ItemChaptersData(iid, chs) == ChaptersData(iid, chs)

\* supabase.from('chapters').insert(chaptersData); the error is thrown
InsertItemChapters ==
  /\ ie.pc = "insertItemChapters"
  /\ \E ok \in BOOLEAN :
       /\ Outcome(ok)
       /\ LET rows == ItemChaptersData(ie.sv.finalItemId,
                                       Val(ie.sv.doc.chapters))
          IN IF ok
             THEN /\ chapters' = chapters \o WithIds(rows, nextId)
                  /\ nextId' = nextId + Len(rows)
                  /\ ie' = ItemFinish(ie)
             ELSE /\ ie' = ItemFailed(ItemThrow(ie, "store"),
                                      "insertItemChapters", ok)
                  /\ UNCHANGED <<chapters, nextId>>
  /\ UNCHANGED <<courses, modules, items>>
  /\ UNCHANGED outsideItemJson

ItemEditorStep ==
  \/ \E which \in {"bg", "rl"} : FetchItemRow(which) \/ FetchItemChapters(which)
  \/ ItemHandleImport
  \/ ItemStartSave
  \/ InsertItem
  \/ UpdateItem
  \/ DeleteItemChapters
  \/ InsertItemChapters

\* ------------------------------------------------------------------ course form editor
\* AdminCourseEdit.  A placeholder id `temp-${Date.now()}` is the negative
\* of the clock value; ids assigned by the store are positive; courseId 0 is
\* 'new'.
TempId(now) == 0 - now

\* id.startsWith('temp-')
startsWithTemp(id) == id < 0

FormTitles == {<<>>, <<" ">>, <<"C">>}

NoFormLocals ==
  [course |-> [title |-> <<>>, created_by |-> ""], modules |-> <<>>,
   isNew |-> FALSE, finalCourseId |-> 0, savedModules |-> <<>>,
   allModules |-> <<>>, savedItems |-> <<>>]

FormOff ==
  [pc |-> "off", courseId |-> 0,
   course |-> [title |-> <<>>, created_by |-> ""], modules |-> <<>>,
   loading |-> FALSE, saving |-> FALSE, error |-> "", clock |-> 0,
   edits |-> 0, saves |-> 0, sv |-> NoFormLocals, bg |-> [pc |-> "idle", cid |-> 0],
   result |-> "none", isNew |-> FALSE, failed |-> {}]

\* mount with courseId = 'new'
FormNew(u) ==
  [FormOff EXCEPT !.pc = "idle", !.course.created_by = u]

\* mount on an existing course: loading, and the useEffect calls fetchCourse
FormOpen(u, cid) ==
  [FormOff EXCEPT !.pc = "idle", !.course.created_by = u, !.courseId = cid,
                  !.loading = TRUE, !.bg = [pc |-> "course", cid |-> cid]]

FormFailed(r, op, ok) == IF ok THEN r ELSE [r EXCEPT !.failed = @ \cup {op}]

\* the handlers of the page are reachable once the spinner is gone
FormShown == fe.pc # "off" /\ ~fe.loading

\* modules (*, items (*)) of the course, ordered by position; the items of
\* each module sorted by position
FormSortedModules(cid) ==
  LET ms == OrderByPosition(ModulesOf(cid))
  IN [k \in 1..Len(ms) |->
       [id |-> ms[k].id, course_id |-> ms[k].course_id, title |-> ms[k].title,
        position |-> ms[k].position,
        items |-> OrderByPosition(ItemsOf(ms[k].id))]]

\* ---- fetchCourse (lines 39-75)
FormFetchCourseRow ==
  /\ fe.pc # "off"
  /\ fe.bg.pc = "course"
  /\ \E ok \in BOOLEAN :
       /\ Outcome(ok)
       /\ fe' =
            IF ok /\ CourseExists(fe.bg.cid)
            THEN [fe EXCEPT !.bg.pc = "modules",
                            !.course = CourseRow(fe.bg.cid)]
            ELSE FormFailed([fe EXCEPT !.bg = [pc |-> "idle", cid |-> 0],
                                       !.error = "load", !.loading = FALSE],
                            "bg.course", ok)
  /\ UNCHANGED <<storeVars, sent>>
  /\ UNCHANGED outsideForm

FormFetchModules ==
  /\ fe.pc # "off"
  /\ fe.bg.pc = "modules"
  /\ \E ok \in BOOLEAN :
       /\ Outcome(ok)
       /\ fe' =
            IF ok
            THEN [fe EXCEPT !.bg = [pc |-> "idle", cid |-> 0],
                            !.modules = FormSortedModules(fe.bg.cid),
                            !.loading = FALSE]
            ELSE FormFailed([fe EXCEPT !.bg = [pc |-> "idle", cid |-> 0],
                                       !.error = "load", !.loading = FALSE],
                            "bg.modules", ok)
  /\ UNCHANGED <<storeVars, sent>>
  /\ UNCHANGED outsideForm

\* ---- the synchronous handlers
\* onChange of the title input: setCourse({...course, title})
setCourseTitle ==
  /\ FormShown
  /\ fe.edits < MaxTitleEdits
  /\ \E t \in FormTitles \ {fe.course.title} :
       fe' = [fe EXCEPT !.course.title = t, !.edits = @ + 1]
  /\ UNCHANGED <<storeVars, faults, sent>>
  /\ UNCHANGED outsideForm

addModule ==
  /\ FormShown
  /\ Len(fe.modules) < MaxFormModules
  /\ fe.clock < MaxTemps
  /\ fe' = [fe EXCEPT
       !.clock = @ + 1,
       !.modules = Append(@,
          [id |-> TempId(fe.clock + 1), course_id |-> fe.courseId,
           title |-> "Nouveau module", position |-> Len(fe.modules),
           items |-> <<>>])]
  /\ UNCHANGED <<storeVars, faults, sent>>
  /\ UNCHANGED outsideForm

NewItem(now, moduleId, module) ==
  [id |-> TempId(now), module_id |-> moduleId, type |-> T_resource,
   title |-> "Nouvel élément", content |-> None,
   position |-> Len(module.items), published |-> TRUE]

addItem(k) ==
  /\ FormShown
  /\ k <= Len(fe.modules)
  /\ fe.clock < MaxTemps
  /\ LET moduleId == fe.modules[k].id
         module == fe.modules[CHOOSE j \in 1..Len(fe.modules) :
                                 /\ fe.modules[j].id = moduleId
                                 /\ \A i \in 1..(j - 1) :
                                      fe.modules[i].id # moduleId]
         newItem == NewItem(fe.clock + 1, moduleId, module)
     IN /\ Len(module.items) < MaxFormItems
        /\ fe' = [fe EXCEPT
             !.clock = @ + 1,
             !.modules = [j \in 1..Len(fe.modules) |->
                IF fe.modules[j].id = moduleId
                THEN [fe.modules[j] EXCEPT !.items = Append(@, newItem)]
                ELSE fe.modules[j]]]
  /\ UNCHANGED <<storeVars, faults, sent>>
  /\ UNCHANGED outsideForm

WithoutItem(mods, moduleId, itemId) ==
  [j \in 1..Len(mods) |->
     IF mods[j].id = moduleId
     THEN [mods[j] EXCEPT !.items = SelectSeq(@, LAMBDA i : i.id # itemId)]
     ELSE mods[j]]

\* deleteModule: a placeholder is dropped from the state; a stored module is
\* deleted in the store first
deleteModule(k) ==
  /\ FormShown
  /\ k <= Len(fe.modules)
  /\ LET moduleId == fe.modules[k].id
         rest == SelectSeq(fe.modules, LAMBDA m : m.id # moduleId)
     IN IF startsWithTemp(moduleId)
        THEN /\ fe' = [fe EXCEPT !.modules = rest]
             /\ UNCHANGED <<storeVars, faults, sent>>
        ELSE \E ok \in BOOLEAN :
               /\ Outcome(ok)
               /\ sent' = sent \cup {moduleId}
               /\ IF ok
                  THEN /\ DeleteModulesCascade({moduleId})
                       /\ fe' = [fe EXCEPT !.modules = rest]
                  ELSE /\ UNCHANGED <<modules, items, chapters>>
                       /\ fe' = FormFailed([fe EXCEPT !.error = "delete"],
                                           "deleteModule", ok)
               /\ UNCHANGED <<courses, nextId>>
  /\ UNCHANGED outsideForm

deleteItem(k, j) ==
  /\ FormShown
  /\ k <= Len(fe.modules)
  /\ j \in 1..Len(fe.modules[k].items)
  /\ LET moduleId == fe.modules[k].id
         itemId == fe.modules[k].items[j].id
         rest == WithoutItem(fe.modules, moduleId, itemId)
     IN IF startsWithTemp(itemId)
        THEN /\ fe' = [fe EXCEPT !.modules = rest]
             /\ UNCHANGED <<storeVars, faults, sent>>
        ELSE \E ok \in BOOLEAN :
               /\ Outcome(ok)
               /\ sent' = sent \cup {itemId}
               /\ IF ok
                  THEN /\ items' = SelectSeq(items, LAMBDA i : i.id # itemId)
                       /\ chapters' = SelectSeq(chapters,
                                        LAMBDA c : c.item_id # itemId)
                       /\ fe' = [fe EXCEPT !.modules = rest]
                  ELSE /\ UNCHANGED <<items, chapters>>
                       /\ fe' = FormFailed([fe EXCEPT !.error = "delete"],
                                           "deleteItem", ok)
               /\ UNCHANGED <<courses, modules, nextId>>
  /\ UNCHANGED outsideForm

\* ---- handleSave (lines 77-283), one action per awaited store call
modulesToCreate(mods) == SelectSeq(mods, LAMBDA m : startsWithTemp(m.id))
modulesToUpdate(mods) == SelectSeq(mods, LAMBDA m : ~startsWithTemp(m.id))

\* savedModules.find((sm, idx) => modulesToCreate[idx]?.title === sm.title
\*   && modulesToCreate[idx]?.position === sm.position)
FindSavedModule(savedModules, toCreate) ==
  LET hits == { idx \in 1..Len(savedModules) :
                  /\ idx <= Len(toCreate)
                  /\ toCreate[idx].title = savedModules[idx].title
                  /\ toCreate[idx].position = savedModules[idx].position }
  IN IF hits = {} THEN None
     ELSE Some(savedModules[CHOOSE i \in hits : \A h \in hits : i <= h])

\* a version that leaves the placeholder ids of the modules in place
MapModuleIdsSkipped(mods, savedModules) == mods

\* modules.map(module => temp ? {...module, id, course_id of the saved} : module)
MapModuleIds(mods, savedModules) ==
  LET found == FindSavedModule(savedModules, modulesToCreate(mods))
  IN [k \in 1..Len(mods) |->
       IF startsWithTemp(mods[k].id) /\ IsSome(found)
       THEN [mods[k] EXCEPT !.id = Val(found).id,
                            !.course_id = Val(found).course_id]
       ELSE mods[k]]

\* let allModules = modules; if (savedModules.length > 0) allModules = ...
AllModules(mods, savedModules) ==
  IF Len(savedModules) > 0 THEN MapModuleIds(mods, savedModules) ELSE mods

Flatten(seqs) ==
  LET F[k \in 0..Len(seqs)] == IF k = 0 THEN <<>> ELSE F[k - 1] \o seqs[k]
  IN F[Len(seqs)]

\* allModules.forEach(module => module.items.forEach(...))
itemsToCreate(allModules) ==
  Flatten([k \in 1..Len(allModules) |->
    LET its == SelectSeq(allModules[k].items, LAMBDA i : startsWithTemp(i.id))
    IN [j \in 1..Len(its) |-> [module_id |-> allModules[k].id, item |-> its[j]]]])

itemsToUpdate(allModules) ==
  Flatten([k \in 1..Len(allModules) |->
    SelectSeq(allModules[k].items, LAMBDA i : ~startsWithTemp(i.id))])

\* the rows of the two batch inserts
FormModulesData(finalCourseId, toCreate) ==
  [k \in 1..Len(toCreate) |->
     [id |-> 0, course_id |-> finalCourseId, title |-> toCreate[k].title,
      position |-> toCreate[k].position]]

FormItemsData(toCreate) ==
  [k \in 1..Len(toCreate) |->
     [id |-> 0, module_id |-> toCreate[k].module_id,
      type |-> toCreate[k].item.type, title |-> toCreate[k].item.title,
      content |-> toCreate[k].item.content,
      position |-> toCreate[k].item.position,
      published |-> toCreate[k].item.published]]

\* savedItems.find(si => si.module_id === module.id && si.title === item.title
\*   && si.position === item.position)
FindSavedItem(savedItems, module, item) ==
  LET hits == { i \in 1..Len(savedItems) :
                  /\ savedItems[i].module_id = module.id
                  /\ savedItems[i].title = item.title
                  /\ savedItems[i].position = item.position }
  IN IF hits = {} THEN None
     ELSE Some(savedItems[CHOOSE i \in hits : \A h \in hits : i <= h])

MapItemIds(mods, savedItems) ==
  [k \in 1..Len(mods) |->
     [mods[k] EXCEPT !.items =
        [j \in 1..Len(mods[k].items) |->
           LET item == mods[k].items[j]
               found == FindSavedItem(savedItems, mods[k], item)
           IN IF startsWithTemp(item.id) /\ IsSome(found)
              THEN [item EXCEPT !.id = Val(found).id]
              ELSE item]]]

\* let finalModules = modules; ... the ids of the created modules and items
FinalModules(mods, savedModules, savedItems) ==
  LET m1 == IF Len(savedModules) > 0 THEN MapModuleIds(mods, savedModules)
            ELSE mods
  IN IF Len(savedItems) > 0 THEN MapItemIds(m1, savedItems) ELSE m1

\* catch: setError(...); finally: setSaving(false)
FormThrow(r, message) ==
  [r EXCEPT !.pc = "idle", !.error = message, !.result = "error",
            !.saving = FALSE, !.sv = NoFormLocals]

\* the end of the try block, then finally
FormFinish(r) ==
  [r EXCEPT
     !.pc = "idle", !.result = "ok", !.saving = FALSE, !.sv = NoFormLocals,
     !.modules =
        IF Len(r.sv.savedModules) > 0 \/ Len(r.sv.savedItems) > 0
        THEN FinalModules(r.sv.modules, r.sv.savedModules, r.sv.savedItems)
        ELSE @]

FormGoItemsUpdate(r) ==
  IF itemsToUpdate(r.sv.allModules) # <<>>
  THEN [r EXCEPT !.pc = "updateItems"]
  ELSE FormFinish(r)

FormGoItems(r) ==
  IF itemsToCreate(r.sv.allModules) # <<>>
  THEN [r EXCEPT !.pc = "insertItems"]
  ELSE FormGoItemsUpdate(r)

\* after the module writes: allModules, and setModules(allModules) when
\* modules were created
FormModulesWritten(r) ==
  FormGoItems(
    [r EXCEPT !.sv.allModules = AllModules(r.sv.modules, r.sv.savedModules),
              !.modules = IF Len(r.sv.savedModules) > 0
                          THEN AllModules(r.sv.modules, r.sv.savedModules)
                          ELSE @])

FormGoModulesUpdate(r) ==
  IF modulesToUpdate(r.sv.modules) # <<>>
  THEN [r EXCEPT !.pc = "updateModules"]
  ELSE FormModulesWritten(r)

FormGoModules(r) ==
  IF modulesToCreate(r.sv.modules) # <<>>
  THEN [r EXCEPT !.pc = "insertModules"]
  ELSE FormGoModulesUpdate(r)

FormStartSave ==
  /\ FormShown
  /\ fe.pc = "idle"
  /\ ~fe.saving
  /\ fe.saves < MaxSaves
  /\ LET r == [fe EXCEPT !.saves = @ + 1, !.failed = {},
                         !.isNew = (fe.courseId = 0)]
     IN fe' =
          IF trim(fe.course.title) = <<>>
          THEN [r EXCEPT !.error = "title", !.result = "refused"]
          ELSE [r EXCEPT
                  !.pc = IF fe.courseId = 0 THEN "insertCourse"
                         ELSE "updateCourse",
                  !.saving = TRUE, !.error = "", !.result = "none",
                  !.sv = [NoFormLocals EXCEPT
                            !.course = fe.course, !.modules = fe.modules,
                            !.isNew = (fe.courseId = 0),
                            !.finalCourseId = fe.courseId]]
  /\ UNCHANGED <<storeVars, faults, sent>>
  /\ UNCHANGED outsideForm

\* supabase.from('courses').insert(courseData).select().single(); navigate(...)
\* the new route parameter makes the mount effect call fetchCourse
FormInsertCourse ==
  /\ fe.pc = "insertCourse"
  /\ \E ok \in BOOLEAN :
       /\ Outcome(ok)
       /\ IF ok
          THEN /\ courses' = Append(courses,
                  [id |-> nextId, title |-> fe.sv.course.title,
                   created_by |-> fe.sv.course.created_by])
               /\ nextId' = nextId + 1
               /\ fe' = FormGoModules(
                    [fe EXCEPT !.sv.finalCourseId = nextId,
                               !.courseId = nextId,
                               !.bg = [pc |-> "course", cid |-> nextId]])
          ELSE /\ fe' = FormFailed(FormThrow(fe, "store"), "insertCourse", ok)
               /\ UNCHANGED <<courses, nextId>>
  /\ UNCHANGED <<modules, items, chapters, sent>>
  /\ UNCHANGED outsideForm

\* supabase.from('courses').update(courseData).eq('id', courseId)
FormUpdateCourse ==
  /\ fe.pc = "updateCourse"
  /\ \E ok \in BOOLEAN :
       /\ Outcome(ok)
       /\ sent' = sent \cup {fe.sv.finalCourseId}
       /\ IF ok
          THEN /\ courses' = [k \in 1..Len(courses) |->
                  IF courses[k].id = fe.sv.finalCourseId
                  THEN [id |-> courses[k].id, title |-> fe.sv.course.title,
                        created_by |-> fe.sv.course.created_by]
                  ELSE courses[k]]
               /\ fe' = FormGoModules(fe)
          ELSE /\ fe' = FormFailed(FormThrow(fe, "store"), "updateCourse", ok)
               /\ UNCHANGED courses
  /\ UNCHANGED <<modules, items, chapters, nextId>>
  /\ UNCHANGED outsideForm

\* supabase.from('modules').insert(modulesData).select()
FormInsertModules ==
  /\ fe.pc = "insertModules"
  /\ \E ok \in BOOLEAN :
       /\ Outcome(ok)
       /\ LET rows == WithIds(FormModulesData(fe.sv.finalCourseId,
                                 modulesToCreate(fe.sv.modules)), nextId)
          IN /\ sent' = sent \cup {fe.sv.finalCourseId}
             /\ IF ok
                THEN /\ modules' = modules \o rows
                     /\ nextId' = nextId + Len(rows)
                     /\ fe' = FormGoModulesUpdate(
                                [fe EXCEPT !.sv.savedModules = rows])
                ELSE /\ fe' = FormFailed(FormThrow(fe, "store"),
                                         "insertModules", ok)
                     /\ UNCHANGED <<modules, nextId>>
  /\ UNCHANGED <<courses, items, chapters>>
  /\ UNCHANGED outsideForm

\* the entry of a Promise.all of updates that a store row ends with: the
\* updates of one row run in parallel, the first or the last of them wins
Winner(entries, id, lastWins) ==
  LET hits == { k \in 1..Len(entries) : entries[k].id = id }
  IN entries[CHOOSE k \in hits :
               \A h \in hits : IF lastWins THEN h <= k ELSE k <= h]

\* Promise.all(modulesToUpdate.map(... update({title, position}).eq('id', id)));
\* the errors are logged only
FormUpdateModules ==
  /\ fe.pc = "updateModules"
  /\ LET toUpdate == modulesToUpdate(fe.sv.modules)
     IN \E failing \in {0} \cup (IF CanFail THEN Ids(toUpdate) ELSE {}),
           lastWins \in BOOLEAN :
          /\ faults' = IF failing = 0 THEN faults ELSE faults + 1
          /\ sent' = sent \cup Ids(toUpdate)
          /\ modules' = [k \in 1..Len(modules) |->
               IF modules[k].id \in Ids(toUpdate) \ {failing}
               THEN LET w == Winner(toUpdate, modules[k].id, lastWins)
                    IN [modules[k] EXCEPT !.title = w.title,
                                          !.position = w.position]
               ELSE modules[k]]
          /\ fe' = FormModulesWritten(
                     FormFailed(fe, "updateModules", failing = 0))
  /\ UNCHANGED <<courses, items, chapters, nextId>>
  /\ UNCHANGED outsideForm

\* supabase.from('items').insert(itemsData).select()
FormInsertItems ==
  /\ fe.pc = "insertItems"
  /\ \E ok \in BOOLEAN :
       /\ Outcome(ok)
       /\ LET rows == WithIds(FormItemsData(itemsToCreate(fe.sv.allModules)),
                              nextId)
          IN /\ sent' = sent \cup { rows[k].module_id : k \in 1..Len(rows) }
             /\ IF ok
                THEN /\ items' = items \o rows
                     /\ nextId' = nextId + Len(rows)
                     /\ fe' = FormGoItemsUpdate(
                                [fe EXCEPT !.sv.savedItems = rows])
                ELSE /\ fe' = FormFailed(FormThrow(fe, "store"),
                                         "insertItems", ok)
                     /\ UNCHANGED <<items, nextId>>
  /\ UNCHANGED <<courses, modules, chapters>>
  /\ UNCHANGED outsideForm

\* Promise.all(itemsToUpdate.map(... update({title, type, position,
\* published}).eq('id', item.id))); the errors are logged only
FormUpdateItems ==
  /\ fe.pc = "updateItems"
  /\ LET toUpdate == itemsToUpdate(fe.sv.allModules)
     IN \E failing \in {0} \cup (IF CanFail THEN Ids(toUpdate) ELSE {}),
           lastWins \in BOOLEAN :
          /\ faults' = IF failing = 0 THEN faults ELSE faults + 1
          /\ sent' = sent \cup Ids(toUpdate)
          /\ items' = [k \in 1..Len(items) |->
               IF items[k].id \in Ids(toUpdate) \ {failing}
               THEN LET w == Winner(toUpdate, items[k].id, lastWins)
                    IN [items[k] EXCEPT !.title = w.title, !.type = w.type,
                                        !.position = w.position,
                                        !.published = w.published]
               ELSE items[k]]
          /\ fe' = FormFinish(FormFailed(fe, "updateItems", failing = 0))
  /\ UNCHANGED <<courses, modules, chapters, nextId>>
  /\ UNCHANGED outsideForm

\* saveAndEditItem (lines 363-424): offered for a placeholder item of a
\* stored module while nothing is being saved; on success the page is left
saveAndEditItem(k, j) ==
  /\ FormShown
  /\ k <= Len(fe.modules)
  /\ fe.pc = "idle"
  /\ ~fe.saving
  /\ j \in 1..Len(fe.modules[k].items)
  /\ LET moduleId == fe.modules[k].id
         item == fe.modules[k].items[j]
         itemData == [id |-> nextId, module_id |-> moduleId,
                      type |-> item.type, title |-> item.title,
                      content |-> Some(OrElse(item.content, EmptyObject)),
                      position |-> item.position,
                      published |-> item.published]
     IN /\ ~startsWithTemp(moduleId)
        /\ startsWithTemp(item.id)
        /\ \E ok \in BOOLEAN :
             /\ Outcome(ok)
             /\ sent' = sent \cup {moduleId}
             /\ IF ok
                THEN /\ items' = Append(items, itemData)
                     /\ nextId' = nextId + 1
                     /\ fe' = [fe EXCEPT
                          !.pc = "off", !.saving = TRUE, !.error = "",
                          !.modules = [m \in 1..Len(fe.modules) |->
                             IF fe.modules[m].id = moduleId
                             THEN [fe.modules[m] EXCEPT !.items =
                                    [i \in 1..Len(@) |->
                                       IF @[i].id = item.id
                                       THEN [@[i] EXCEPT !.id = nextId]
                                       ELSE @[i]]]
                             ELSE fe.modules[m]]]
                ELSE /\ fe' = FormFailed([fe EXCEPT !.error = "store"],
                                         "saveAndEditItem", ok)
                     /\ UNCHANGED <<items, nextId>>
  /\ UNCHANGED <<courses, modules, chapters>>
  /\ UNCHANGED outsideForm

FormStep ==
  \/ FormFetchCourseRow
  \/ FormFetchModules
  \/ setCourseTitle
  \/ addModule
  \/ \E k \in 1..MaxFormModules :
       \/ addItem(k)
       \/ deleteModule(k)
       \/ \E j \in 1..MaxFormItems : deleteItem(k, j) \/ saveAndEditItem(k, j)
  \/ FormStartSave
  \/ FormInsertCourse
  \/ FormUpdateCourse
  \/ FormInsertModules
  \/ FormUpdateModules
  \/ FormInsertItems
  \/ FormUpdateItems

\* ------------------------------------------------------------------ ChapterManager
\* cm.chapters: the chapters state; cm.timer: the pending auto-save callback
\* of a title change, with the chapter it closed over.
ChapterTitles == {"Nouveau chapitre", "A"}

ChaptersOff ==
  [pc |-> "off", itemId |-> 0, chapters |-> <<>>, clock |-> 0,
   edits |-> 0, timer |-> None, failed |-> {}]

\* <ChapterManager itemId={itemId} /> is rendered for a stored item only:
\* the useEffect calls fetchChapters
ChaptersMounted(iid) == [ChaptersOff EXCEPT !.pc = "loading", !.itemId = iid]

ChaptersFailed(r, op, ok) ==
  IF ok THEN r ELSE [r EXCEPT !.failed = @ \cup {op}]

fetchChapters ==
  /\ cm.pc = "loading"
  /\ \E ok \in BOOLEAN :
       /\ Outcome(ok)
       /\ cm' = ChaptersFailed(
                  [cm EXCEPT !.pc = "ready",
                             !.chapters =
                                IF ok
                                THEN OrderByPosition(ChaptersOf(cm.itemId))
                                ELSE @],
                  "fetchChapters", ok)
  /\ UNCHANGED <<storeVars, sent>>
  /\ UNCHANGED outsideChapters

addChapter ==
  /\ cm.pc = "ready"
  /\ Len(cm.chapters) < MaxChapters
  /\ cm.clock < MaxTemps
  /\ cm' = [cm EXCEPT
       !.clock = @ + 1,
       !.chapters = Append(@,
          [id |-> TempId(cm.clock + 1), item_id |-> cm.itemId,
           title |-> "Nouveau chapitre", content |-> None,
           position |-> Len(cm.chapters)])]
  /\ UNCHANGED <<storeVars, faults, sent>>
  /\ UNCHANGED outsideChapters

\* saveChapter(chapter): the ids of the row it inserts (a placeholder
\* chapter) or of the filter of its update (a stored chapter)
SaveChapterSends(chapter) ==
  IF startsWithTemp(chapter.id) THEN {chapter.item_id} ELSE {chapter.id}

\* the store after the updates of saveChapter for the chapters in saved
UpdatedChapters(saved) ==
  [k \in 1..Len(chapters) |->
     IF \E c \in saved : c.id = chapters[k].id
     THEN LET c == CHOOSE c \in saved : c.id = chapters[k].id
          IN [chapters[k] EXCEPT !.title = c.title, !.content = c.content,
                                 !.position = c.position]
     ELSE chapters[k]]

\* onChange of the title input: updateChapter, then setTimeout(..., 1000)
changeChapterTitle(k) ==
  /\ cm.pc = "ready"
  /\ k <= Len(cm.chapters)
  /\ cm.timer = None
  /\ cm.edits < MaxTitleEdits
  /\ \E t \in ChapterTitles \ {cm.chapters[k].title} :
       cm' = [cm EXCEPT !.chapters[k].title = t, !.edits = @ + 1,
                        !.timer = Some([cm.chapters[k] EXCEPT !.title = t])]
  /\ UNCHANGED <<storeVars, faults, sent>>
  /\ UNCHANGED outsideChapters

\* the timeout: if (!chapter.id.startsWith('temp-')) saveChapter({...})
autoSaveChapter ==
  /\ cm.pc = "ready"
  /\ IsSome(cm.timer)
  /\ LET chapter == Val(cm.timer)
     IN IF startsWithTemp(chapter.id)
        THEN /\ cm' = [cm EXCEPT !.timer = None]
             /\ UNCHANGED <<storeVars, faults, sent>>
        ELSE \E ok \in BOOLEAN :
               /\ Outcome(ok)
               /\ sent' = sent \cup SaveChapterSends(chapter)
               /\ chapters' = IF ok THEN UpdatedChapters({chapter})
                              ELSE chapters
               /\ cm' = ChaptersFailed([cm EXCEPT !.timer = None],
                                       "saveChapter", ok)
               /\ UNCHANGED <<courses, modules, items, nextId>>
  /\ UNCHANGED outsideChapters

deleteChapter(k) ==
  /\ cm.pc = "ready"
  /\ k <= Len(cm.chapters)
  /\ LET chapterId == cm.chapters[k].id
         rest == SelectSeq(cm.chapters, LAMBDA c : c.id # chapterId)
     IN IF startsWithTemp(chapterId)
        THEN /\ cm' = [cm EXCEPT !.chapters = rest]
             /\ UNCHANGED <<storeVars, faults, sent>>
        ELSE \E ok \in BOOLEAN :
               /\ Outcome(ok)
               /\ sent' = sent \cup {chapterId}
               /\ chapters' = IF ok
                              THEN SelectSeq(chapters,
                                     LAMBDA c : c.id # chapterId)
                              ELSE chapters
               /\ cm' = ChaptersFailed(
                          [cm EXCEPT !.chapters = IF ok THEN rest ELSE @],
                          "deleteChapter", ok)
               /\ UNCHANGED <<courses, modules, items, nextId>>
  /\ UNCHANGED outsideChapters

\* splice(index, 1) then splice(newIndex, 0, moved); c.position = i
Reordered(chs, index, newIndex) ==
  LET without == [k \in 1..(Len(chs) - 1) |->
                    IF k < index THEN chs[k] ELSE chs[k + 1]]
      moved == [k \in 1..Len(chs) |->
                  IF k < newIndex THEN without[k]
                  ELSE IF k = newIndex THEN chs[index]
                  ELSE without[k - 1]]
  IN [k \in 1..Len(chs) |-> [moved[k] EXCEPT !.position = k - 1]]

\* moveChapter and handleDrop: the chapter at index goes to newIndex, every
\* chapter takes its index as position, and saveChapter runs for each
\* stored chapter; the calls fail independently
moveChapter(index, newIndex) ==
  /\ cm.pc = "ready"
  /\ index <= Len(cm.chapters)
  /\ newIndex <= Len(cm.chapters)
  /\ index # newIndex
  /\ LET updatedChapters == Reordered(cm.chapters, index, newIndex)
         stored == { updatedChapters[k] : k \in
                       { k \in 1..Len(updatedChapters) :
                           ~startsWithTemp(updatedChapters[k].id) } }
     IN \E failing \in {0} \cup (IF CanFail THEN { c.id : c \in stored }
                                 ELSE {}) :
          /\ faults' = IF failing = 0 THEN faults ELSE faults + 1
          /\ sent' = sent \cup UNION { SaveChapterSends(c) : c \in stored }
          /\ chapters' = UpdatedChapters({ c \in stored : c.id # failing })
          /\ cm' = ChaptersFailed([cm EXCEPT !.chapters = updatedChapters],
                                  "saveChapter", failing = 0)
  /\ UNCHANGED <<courses, modules, items, nextId>>
  /\ UNCHANGED outsideChapters

ChaptersStep ==
  \/ fetchChapters
  \/ addChapter
  \/ autoSaveChapter
  \/ \E k \in 1..MaxChapters :
       \/ changeChapterTitle(k)
       \/ deleteChapter(k)
       \/ \E n \in 1..MaxChapters : moveChapter(k, n)

\* ------------------------------------------------------------------ CardMatchingGame
\* A card id `term-${index}` / `def-${index}` is <<kind, index>>; its pairId
\* `pair-${index}` is the index.  now is Date.now() in seconds.
\*   timeouts: the pending setTimeout callbacks of mismatches, each with the
\*     two card ids it closed over
\*   scores, lastScore: the onScore calls since the game was last started or
\*     reset, and the arguments of the last one (kept for the properties)
\*   mismatches, finishedAt: the mismatched reveals since the game was last
\*     started or reset, and the clock when it finished (kept for the
\*     properties)
Max(a, b) == IF a >= b THEN a ELSE b

CardIds(n) == { <<kind, i>> : kind \in {"term", "def"}, i \in 0..(n - 1) }

pairId(cardId) == cardId[2]

CardOff ==
  [mounted |-> FALSE, pairs |-> 0, cards |-> <<>>, flippedCards |-> <<>>,
   matchedPairs |-> 0, attempts |-> 0, gameStarted |-> FALSE,
   gameFinished |-> FALSE, startTime |-> None, elapsedTime |-> 0, now |-> 1,
   timeouts |-> {}, scores |-> 0, lastScore |-> None, mismatches |-> 0,
   finishedAt |-> None]

\* mount with n pairs: the init effect creates the cards face down
CardMounted(n) ==
  [CardOff EXCEPT !.mounted = TRUE, !.pairs = n,
                  !.cards = [c \in CardIds(n) |->
                               [flipped |-> FALSE, matched |-> FALSE]]]

\* the rates of the column game applied to the card game
CardScoreColumnRates(r) ==
  IF r.startTime = None THEN None
  ELSE LET time == r.now - Val(r.startTime)
           timeScore == Max(0, 1000 - (time * 5))
           attemptsScore == Max(0, 1000 - ((r.attempts - r.pairs) * 100))
       IN Some([score |-> Max(0, timeScore + attemptsScore),
                attempts |-> r.attempts, time |-> time, pairs |-> r.pairs])

\* calculateScore: the arguments of onScore, or nothing without a startTime
CardScore(r) ==
  IF r.startTime = None THEN None
  ELSE LET time == r.now - Val(r.startTime)
           timeScore == Max(0, 1000 - (time * 10))
           attemptsScore == Max(0, 1000 - (r.attempts * 50))
       IN Some([score |-> Max(0, timeScore + attemptsScore),
                attempts |-> r.attempts, time |-> time, pairs |-> r.pairs])

\* a render in which the finish effect ignores its dependency array
CardEffectEveryRender(old, new) == TRUE

\* the dependency array [matchedPairs, pairs.length, gameStarted]: the effect
\* runs after a render in which one of them changed
CardFinishDeps(old, new) ==
  \/ old.matchedPairs # new.matchedPairs
  \/ old.pairs # new.pairs
  \/ old.gameStarted # new.gameStarted

\* a finish effect that does nothing
CardFinishEffectOff(r) == r

\* the finish effect: setGameFinished(true); calculateScore()
CardFinishEffect(r) ==
  IF r.matchedPairs = r.pairs /\ r.pairs > 0 /\ r.gameStarted
  THEN [r EXCEPT !.gameFinished = TRUE,
                 !.scores = IF CardScore(r) = None THEN @ ELSE @ + 1,
                 !.lastScore = IF CardScore(r) = None THEN @ ELSE CardScore(r),
                 !.finishedAt = Some(r.now)]
  ELSE r

\* the state after the handler's updates are rendered and the effects ran
CardRendered(old, new) ==
  IF CardFinishDeps(old, new) THEN CardFinishEffect(new) ELSE new

CardStartGame ==
  /\ cg.mounted
  /\ ~cg.gameStarted
  /\ cg' = CardRendered(cg,
       [cg EXCEPT !.gameStarted = TRUE, !.startTime = Some(cg.now),
                  !.elapsedTime = 0, !.attempts = 0, !.matchedPairs = 0,
                  !.gameFinished = FALSE, !.flippedCards = <<>>,
                  !.cards = [c \in DOMAIN @ |->
                               [flipped |-> FALSE, matched |-> FALSE]],
                  !.scores = 0, !.lastScore = None, !.mismatches = 0,
                  !.finishedAt = None])
  /\ UNCHANGED outsideCards

handleCardClick(cardId) ==
  /\ cg.mounted
  /\ cardId \in DOMAIN cg.cards
  /\ cg.gameStarted /\ ~cg.gameFinished
  /\ Len(cg.flippedCards) < 2
  /\ ~cg.cards[cardId].flipped /\ ~cg.cards[cardId].matched
  /\ LET newFlippedCards == Append(cg.flippedCards, cardId)
         turned == [cg EXCEPT !.cards[cardId].flipped = TRUE]
     IN IF Len(newFlippedCards) = 2
        THEN IF pairId(newFlippedCards[1]) = pairId(newFlippedCards[2])
             THEN cg' = CardRendered(cg,
                    [turned EXCEPT
                       !.cards = [c \in DOMAIN @ |->
                          IF pairId(c) = pairId(newFlippedCards[1])
                          THEN [flipped |-> TRUE, matched |-> TRUE]
                          ELSE @[c]],
                       !.matchedPairs = @ + 1,
                       !.flippedCards = <<>>])
             ELSE /\ cg.attempts < MaxAttempts
                  /\ cg' = CardRendered(cg,
                       [turned EXCEPT !.attempts = @ + 1,
                                      !.mismatches = @ + 1,
                                      !.timeouts = @ \cup {newFlippedCards}])
        ELSE cg' = CardRendered(cg,
                     [turned EXCEPT !.flippedCards = newFlippedCards])
  /\ UNCHANGED outsideCards

\* the callback of setTimeout(..., 1000) after a mismatch
mismatchTimeout(t) ==
  /\ cg.mounted
  /\ t \in cg.timeouts
  /\ cg' = CardRendered(cg,
       [cg EXCEPT
          !.cards = [c \in DOMAIN @ |->
             IF c \in Range(t) /\ ~@[c].matched
             THEN [@[c] EXCEPT !.flipped = FALSE]
             ELSE @[c]],
          !.flippedCards = <<>>,
          !.timeouts = @ \ {t}])
  /\ UNCHANGED outsideCards

\* a second passes; while the game runs the interval sets elapsedTime
CardTick ==
  /\ cg.mounted
  /\ cg.now < MaxTime
  /\ cg' = CardRendered(cg,
       [cg EXCEPT
          !.now = @ + 1,
          !.elapsedTime =
             IF cg.gameStarted /\ ~cg.gameFinished /\ IsSome(cg.startTime)
             THEN cg.now + 1 - Val(cg.startTime)
             ELSE @])
  /\ UNCHANGED outsideCards

\* "Rejouer", shown when the game is finished
CardResetGame ==
  /\ cg.mounted
  /\ cg.gameFinished
  /\ cg' = CardRendered(cg,
       [cg EXCEPT !.gameStarted = FALSE, !.gameFinished = FALSE,
                  !.flippedCards = <<>>, !.matchedPairs = 0, !.attempts = 0,
                  !.elapsedTime = 0, !.startTime = None,
                  !.cards = [c \in DOMAIN @ |->
                               [flipped |-> FALSE, matched |-> FALSE]],
                  !.scores = 0, !.lastScore = None, !.mismatches = 0,
                  !.finishedAt = None])
  /\ UNCHANGED outsideCards

CardStep ==
  \/ CardStartGame
  \/ \E cardId \in CardIds(MaxPairs) : handleCardClick(cardId)
  \/ \E a, b \in CardIds(MaxPairs) : mismatchTimeout(<<a, b>>)
  \/ CardTick
  \/ CardResetGame

\* ------------------------------------------------------------------ ColumnMatchingGame
\* An item id `left-${index}` / `right-${index}` is <<side, index>>.
\*   leftItems, rightItems: the matchedId of each item, by index
\*   feedbackTimer: some setTimeout(() => setFeedback(null)) set since the
\*     game was mounted or last reset is pending; the callbacks are all alike,
\*     so only whether one is left matters
\*   staleTimer: some such callback set before the last reset is pending
\*   staleCleared: since the last reset, a callback set before it has cleared
\*     a feedback that was showing (kept for the properties)
\*   scores, lastScore: as in the card game
\*   evaluations, finishedAt: the pairs evaluated since the game was last
\*     started or reset, and the clock when it finished (kept for the
\*     properties)
Match(l, r) == [left |-> l, right |-> r]

\* the props the game is mounted with: a bijection, one match among
\* distractors, one left item with two right items, a repeated match, a
\* match with a right index outside the column
ColumnGames ==
  { [leftColumn |-> 2, rightColumn |-> 2,
     correctMatches |-> <<Match(0, 0), Match(1, 1)>>],
    [leftColumn |-> 2, rightColumn |-> 2,
     correctMatches |-> <<Match(1, 0)>>],
    [leftColumn |-> 1, rightColumn |-> 2,
     correctMatches |-> <<Match(0, 0), Match(0, 1)>>],
    [leftColumn |-> 1, rightColumn |-> 1,
     correctMatches |-> <<Match(0, 0), Match(0, 0)>>],
    [leftColumn |-> 1, rightColumn |-> 1,
     correctMatches |-> <<Match(0, 1)>>] }

leftId(index) == <<"left", index>>

rightId(index) == <<"right", index>>

\* parseInt(id.split('-')[1])
IndexOf(itemId) == itemId[2]

ColumnOff ==
  [mounted |-> FALSE, leftColumn |-> 0, rightColumn |-> 0,
   correctMatches |-> <<>>, leftItems |-> <<>>, rightItems |-> <<>>,
   selectedLeft |-> None, selectedRight |-> None, matchedPairs |-> {},
   attempts |-> 0, gameStarted |-> FALSE, gameFinished |-> FALSE,
   startTime |-> None, elapsedTime |-> 0, now |-> 1, feedback |-> None,
   feedbackTimer |-> FALSE, staleTimer |-> FALSE, staleCleared |-> FALSE,
   scores |-> 0, lastScore |-> None, evaluations |-> 0, finishedAt |-> None]

\* mount: the init effect creates the items unmatched
ColumnMounted(g) ==
  [ColumnOff EXCEPT !.mounted = TRUE, !.leftColumn = g.leftColumn,
                    !.rightColumn = g.rightColumn,
                    !.correctMatches = g.correctMatches,
                    !.leftItems = [i \in 0..(g.leftColumn - 1) |-> None],
                    !.rightItems = [i \in 0..(g.rightColumn - 1) |-> None]]

\* the rates of the card game applied to the column game
ColumnScoreCardRates(r) ==
  IF r.startTime = None THEN None
  ELSE LET time == r.now - Val(r.startTime)
           totalMatches == Len(r.correctMatches)
           timeScore == Max(0, 1000 - (time * 10))
           attemptsScore == Max(0, 1000 - (r.attempts * 50))
       IN Some([score |-> Max(0, timeScore + attemptsScore),
                attempts |-> r.attempts, time |-> time,
                totalMatches |-> totalMatches])

\* calculateScore: the arguments of onScore, or nothing without a startTime
ColumnScore(r) ==
  IF r.startTime = None THEN None
  ELSE LET time == r.now - Val(r.startTime)
           totalMatches == Len(r.correctMatches)
           timeScore == Max(0, 1000 - (time * 5))
           attemptsScore == Max(0, 1000 - ((r.attempts - totalMatches) * 100))
       IN Some([score |-> Max(0, timeScore + attemptsScore),
                attempts |-> r.attempts, time |-> time,
                totalMatches |-> totalMatches])

\* the dependency array [matchedPairs.size, correctMatches.length, gameStarted]
ColumnFinishDeps(old, new) ==
  \/ Cardinality(old.matchedPairs) # Cardinality(new.matchedPairs)
  \/ Len(old.correctMatches) # Len(new.correctMatches)
  \/ old.gameStarted # new.gameStarted

\* the finish effect: setGameFinished(true); calculateScore()
ColumnFinishEffect(r) ==
  IF /\ Cardinality(r.matchedPairs) = Len(r.correctMatches) * 2
     /\ Len(r.correctMatches) > 0
     /\ r.gameStarted
  THEN [r EXCEPT !.gameFinished = TRUE,
                 !.scores = IF ColumnScore(r) = None THEN @ ELSE @ + 1,
                 !.lastScore =
                    IF ColumnScore(r) = None THEN @ ELSE ColumnScore(r),
                 !.finishedAt = Some(r.now)]
  ELSE r

ColumnRendered(old, new) ==
  IF ColumnFinishDeps(old, new) THEN ColumnFinishEffect(new) ELSE new

ColumnStartGame ==
  /\ col.mounted
  /\ ~col.gameStarted
  /\ col' = ColumnRendered(col,
       [col EXCEPT !.gameStarted = TRUE, !.startTime = Some(col.now),
                   !.elapsedTime = 0, !.attempts = 0, !.matchedPairs = {},
                   !.gameFinished = FALSE, !.selectedLeft = None,
                   !.selectedRight = None, !.feedback = None,
                   !.leftItems = [i \in DOMAIN @ |-> None],
                   !.rightItems = [i \in DOMAIN @ |-> None],
                   !.scores = 0, !.lastScore = None, !.evaluations = 0,
                   !.finishedAt = None])
  /\ UNCHANGED outsideColumns

\* a match decided by the two indexes being equal
MatchesSameIndex(correctMatches, leftIndex, rightIndex) ==
  leftIndex = rightIndex

\* correctMatches.some(match => match.left === leftIndex &&
\*                              match.right === rightIndex)
MatchIsCorrect(correctMatches, leftIndex, rightIndex) ==
  \E k \in 1..Len(correctMatches) :
     /\ correctMatches[k].left = leftIndex
     /\ correctMatches[k].right = rightIndex

\* a checkMatch that leaves the matchedId of the right item unset
checkMatchRightIdUnset(r, lId, rId) ==
  LET isCorrect == MatchIsCorrect(r.correctMatches, IndexOf(lId), IndexOf(rId))
      tried == [r EXCEPT !.attempts = @ + 1,
                         !.evaluations = @ + 1,
                         !.feedback = Some([left |-> lId, right |-> rId,
                                            correct |-> isCorrect]),
                         !.selectedLeft = None, !.selectedRight = None,
                         !.feedbackTimer = TRUE]
  IN IF isCorrect
     THEN [tried EXCEPT !.matchedPairs = @ \cup {lId, rId},
                        !.leftItems[IndexOf(lId)] = Some(rId)]
     ELSE tried

\* a checkMatch that counts only the refused pairs as attempts
checkMatchCorrectUncounted(r, lId, rId) ==
  LET isCorrect == MatchIsCorrect(r.correctMatches, IndexOf(lId), IndexOf(rId))
      tried == [r EXCEPT !.attempts = IF isCorrect THEN @ ELSE @ + 1,
                         !.evaluations = IF isCorrect THEN @ ELSE @ + 1,
                         !.feedback = Some([left |-> lId, right |-> rId,
                                            correct |-> isCorrect]),
                         !.selectedLeft = None, !.selectedRight = None,
                         !.feedbackTimer = TRUE]
  IN IF isCorrect
     THEN [tried EXCEPT !.matchedPairs = @ \cup {lId, rId},
                        !.leftItems[IndexOf(lId)] = Some(rId),
                        !.rightItems[IndexOf(rId)] = Some(lId)]
     ELSE tried

\* checkMatch, applied to the state r the calling handler has prepared
checkMatch(r, lId, rId) ==
  LET leftIndex == IndexOf(lId)
      rightIndex == IndexOf(rId)
      isCorrect == MatchIsCorrect(r.correctMatches, leftIndex, rightIndex)
      tried == [r EXCEPT !.attempts = @ + 1,
                         !.evaluations = @ + 1,
                         !.feedback = Some([left |-> lId, right |-> rId,
                                            correct |-> isCorrect]),
                         !.selectedLeft = None, !.selectedRight = None,
                         !.feedbackTimer = TRUE]
  IN IF isCorrect
     THEN [tried EXCEPT !.matchedPairs = @ \cup {lId, rId},
                        !.leftItems[leftIndex] = Some(rId),
                        !.rightItems[rightIndex] = Some(lId)]
     ELSE tried

handleLeftClick(index) ==
  /\ col.mounted
  /\ index \in DOMAIN col.leftItems
  /\ col.gameStarted /\ ~col.gameFinished
  /\ leftId(index) \notin col.matchedPairs
  /\ IF col.selectedLeft = Some(leftId(index))
     THEN col' = ColumnRendered(col,
            [col EXCEPT !.selectedLeft = None, !.feedback = None])
     ELSE LET chosen == [col EXCEPT !.selectedLeft = Some(leftId(index)),
                                    !.selectedRight = None,
                                    !.feedback = None]
          IN IF IsSome(col.selectedRight)
             THEN /\ col.attempts < MaxAttempts
                  /\ col' = ColumnRendered(col,
                       checkMatch(chosen, leftId(index),
                                  Val(col.selectedRight)))
             ELSE col' = ColumnRendered(col, chosen)
  /\ UNCHANGED outsideColumns

handleRightClick(index) ==
  /\ col.mounted
  /\ index \in DOMAIN col.rightItems
  /\ col.gameStarted /\ ~col.gameFinished
  /\ col.rightItems[index] = None
  /\ IF col.selectedRight = Some(rightId(index))
     THEN col' = ColumnRendered(col,
            [col EXCEPT !.selectedRight = None, !.feedback = None])
     ELSE LET chosen == [col EXCEPT !.selectedRight = Some(rightId(index)),
                                    !.selectedLeft = None,
                                    !.feedback = None]
          IN IF IsSome(col.selectedLeft)
             THEN /\ col.attempts < MaxAttempts
                  /\ col' = ColumnRendered(col,
                       checkMatch(chosen, Val(col.selectedLeft),
                                  rightId(index)))
             ELSE col' = ColumnRendered(col, chosen)
  /\ UNCHANGED outsideColumns

\* a callback of setTimeout(() => setFeedback(null), ...); more may be left
feedbackTimeout ==
  /\ col.mounted
  /\ col.feedbackTimer
  /\ \E more \in BOOLEAN :
       col' = ColumnRendered(col,
                [col EXCEPT !.feedback = None, !.feedbackTimer = more])
  /\ UNCHANGED outsideColumns

\* such a callback that was set before the last reset: nothing cancels it
staleFeedbackTimeout ==
  /\ col.mounted
  /\ col.staleTimer
  /\ \E more \in BOOLEAN :
       col' = ColumnRendered(col,
                [col EXCEPT !.feedback = None, !.staleTimer = more,
                            !.staleCleared = @ \/ IsSome(col.feedback)])
  /\ UNCHANGED outsideColumns

\* a second passes; while the game runs the interval sets elapsedTime
ColumnTick ==
  /\ col.mounted
  /\ col.now < MaxTime
  /\ col' = ColumnRendered(col,
       [col EXCEPT
          !.now = @ + 1,
          !.elapsedTime =
             IF col.gameStarted /\ ~col.gameFinished /\ IsSome(col.startTime)
             THEN col.now + 1 - Val(col.startTime)
             ELSE @])
  /\ UNCHANGED outsideColumns

\* "Rejouer", shown when the game is finished
ColumnResetGame ==
  /\ col.mounted
  /\ col.gameFinished
  /\ col' = ColumnRendered(col,
       [col EXCEPT !.gameStarted = FALSE, !.gameFinished = FALSE,
                   !.selectedLeft = None, !.selectedRight = None,
                   !.matchedPairs = {}, !.attempts = 0, !.elapsedTime = 0,
                   !.startTime = None, !.feedback = None,
                   !.leftItems = [i \in DOMAIN @ |-> None],
                   !.rightItems = [i \in DOMAIN @ |-> None],
                   !.staleTimer = @ \/ col.feedbackTimer,
                   !.feedbackTimer = FALSE, !.staleCleared = FALSE,
                   !.scores = 0, !.lastScore = None, !.evaluations = 0,
                   !.finishedAt = None])
  /\ UNCHANGED outsideColumns

ColumnStep ==
  \/ ColumnStartGame
  \/ \E index \in 0..(MaxColumn - 1) : handleLeftClick(index)
  \/ \E index \in 0..(MaxColumn - 1) : handleRightClick(index)
  \/ feedbackTimeout
  \/ staleFeedbackTimeout
  \/ ColumnTick
  \/ ColumnResetGame

\* ------------------------------------------------------------------ game registry: payloads
\* A GameConfig object by the fields the registry reads.  An array field is
\* Some(sequence); None is a field that is absent or not an array.
\* game_content is Some(object) when the object wraps another one.
NoConfig ==
  [gameType |-> None, pairs |-> None, leftColumn |-> None,
   rightColumn |-> None, correctMatches |-> None, apiTypes |-> None,
   scenarios |-> None, levels |-> None, fileTypes |-> None,
   examples |-> None, game_content |-> None]

\* the values a caller may hand to extractGameContent
JsNull == [kind |-> "null", obj |-> None, json |-> None]

JsObject(config) == [kind |-> "object", obj |-> Some(config), json |-> None]

\* a string; json is what JSON.parse makes of it, None when it throws
JsString(parsed) == [kind |-> "string", obj |-> None, json |-> parsed]

\* what extractGameContent ends with
ReturnsNull == [tag |-> "null", config |-> None]

ReturnsConfig(config) == [tag |-> "config", config |-> Some(config)]

Throws == [tag |-> "throws", config |-> None]

\* the object part of extractGameContent, after the string was parsed
RECURSIVE extractObject(_)
extractObject(config) ==
  IF IsSome(config.game_content)
  THEN extractObject(Val(config.game_content))
  ELSE IF config.gameType = None
       THEN ReturnsNull
       ELSE ReturnsConfig(config)

\* extractGameContent; reading a field of the null that JSON.parse('null')
\* returns throws a TypeError
extractGameContent(gameContent) ==
  CASE gameContent.kind = "null" -> ReturnsNull
    [] gameContent.kind = "string" ->
         IF gameContent.json = None THEN ReturnsNull
         ELSE IF Val(gameContent.json).kind = "object"
              THEN extractObject(Val(Val(gameContent.json).obj))
              ELSE Throws
    [] gameContent.kind = "object" -> extractObject(Val(gameContent.obj))

\* Array.isArray(field) && field.length > 0
NonEmptyArray(field) == IsSome(field) /\ Len(Val(field)) > 0

\* gameRegistry.register({gameType: 'column-matching', validateConfig})
validateConfig_columnMatching(config) ==
  /\ IsSome(config.leftColumn)
  /\ IsSome(config.rightColumn)
  /\ IsSome(config.correctMatches)
  /\ Len(Val(config.leftColumn)) > 0
  /\ Len(Val(config.rightColumn)) > 0

\* gameRegistry.register({gameType: 'api-types', validateConfig})
validateConfig_apiTypes(config) ==
  /\ IsSome(config.apiTypes)
  /\ IsSome(config.scenarios)
  /\ Len(Val(config.apiTypes)) > 0
  /\ Len(Val(config.scenarios)) > 0

\* gameRegistry.register({gameType: 'format-files', validateConfig})
validateConfig_formatFiles(config) ==
  IsSome(config.levels) /\ Len(Val(config.levels)) > 0

\* gameRegistry.register({gameType: 'json-file-types', validateConfig})
validateConfig_jsonFileTypes(config) ==
  /\ IsSome(config.fileTypes)
  /\ IsSome(config.examples)
  /\ Len(Val(config.fileTypes)) > 0
  /\ Len(Val(config.examples)) > 0

\* gameRegistry.get(config.gameType).validateConfig(config)
validateConfig(config) ==
  CASE Val(config.gameType) = "matching" -> validateConfig_matching(config)
    [] Val(config.gameType) = "column-matching" ->
         validateConfig_columnMatching(config)
    [] Val(config.gameType) = "api-types" -> validateConfig_apiTypes(config)
    [] Val(config.gameType) = "format-files" ->
         validateConfig_formatFiles(config)
    [] Val(config.gameType) = "json-file-types" ->
         validateConfig_jsonFileTypes(config)

\* ---- the payloads of the model
Labels == {None, Some(<<>>), Some(<<"a", "b">>)}

MatchLists ==
  {None, Some(<<>>), Some(<<Match(0, 0), Match(1, 1)>>),
   Some(<<Match(0, 0), Match(1, 2)>>), Some(<<Match(0 - 1, 0)>>)}

LevelLists ==
  {None, Some(<<>>), Some(<<[questions |-> Some(<<"q1">>)]>>),
   Some(<<[questions |-> Some(<<"q1">>)], [questions |-> None]>>)}

FlatConfigs ==
  { [NoConfig EXCEPT !.gameType = Some("matching"), !.pairs = p] :
      p \in {None, Some(<<>>), Some(<<Pair(1)>>)} }
  \cup
  { [NoConfig EXCEPT !.gameType = Some("column-matching"), !.leftColumn = l,
                     !.rightColumn = r, !.correctMatches = m] :
      l \in Labels, r \in Labels, m \in MatchLists }
  \cup
  { [NoConfig EXCEPT !.gameType = Some("api-types"), !.apiTypes = a,
                     !.scenarios = sc] : a \in Labels, sc \in Labels }
  \cup
  { [NoConfig EXCEPT !.gameType = Some("format-files"), !.levels = lv] :
      lv \in LevelLists }
  \cup
  { [NoConfig EXCEPT !.gameType = Some("json-file-types"), !.fileTypes = f,
                     !.examples = x] : f \in Labels, x \in Labels }
  \cup
  { [NoConfig EXCEPT !.gameType = g, !.pairs = Some(<<Pair(1)>>)] :
      g \in {None, Some("quiz")} }

\* config inside n wrapping objects {game_content: ...}
RECURSIVE Wrapped(_, _)
Wrapped(config, n) ==
  IF n = 0 THEN config
  ELSE [NoConfig EXCEPT !.game_content = Some(Wrapped(config, n - 1))]

\* the payloads that are nested, taken from a few configs of each kind
NestedConfigs ==
  { c \in FlatConfigs :
      \/ c.gameType \in {None, Some("matching"), Some("format-files")}
      \/ /\ c.gameType = Some("api-types")
         /\ c.apiTypes = c.scenarios }

GameContents ==
  {JsNull, JsString(None), JsString(Some(JsNull))}
  \cup { JsObject(c) : c \in FlatConfigs }
  \cup { JsObject(Wrapped(c, n)) : c \in NestedConfigs, n \in 1..MaxNesting }
  \cup { JsString(Some(JsObject(Wrapped(c, n)))) :
           c \in NestedConfigs, n \in 0..1 }

\* ---- one payload, extracted and then validated
RegistryOff ==
  [pc |-> "off", gameContent |-> JsNull, extracted |-> ReturnsNull,
   registered |-> FALSE, valid |-> FALSE]

RegistryGiven(gameContent) ==
  [RegistryOff EXCEPT !.pc = "given", !.gameContent = gameContent]

ExtractGameContent ==
  /\ rg.pc = "given"
  /\ rg' = [rg EXCEPT !.pc = "extracted",
                      !.extracted = extractGameContent(rg.gameContent)]
  /\ UNCHANGED outsideRegistry

\* gameRegistry.has(gameType), then the validator of the registered game
ValidateExtracted ==
  /\ rg.pc = "extracted"
  /\ rg.extracted.tag = "config"
  /\ LET config == Val(rg.extracted.config)
         registered == Val(config.gameType) \in RegisteredGameTypes
     IN rg' = [rg EXCEPT !.pc = "validated",
                         !.registered = registered,
                         !.valid = registered /\ validateConfig(config)]
  /\ UNCHANGED outsideRegistry

RegistryStep == ExtractGameContent \/ ValidateExtracted

\* ------------------------------------------------------------------ AuthProvider and ProtectedRoute
\* au.signedIn, au.storedRole: whether the auth client holds a session (of
\*   user "u1"), and the role of that user's row in profiles, if there is one
\* au.user, au.profile, au.loading: the state of the AuthProvider; the
\*   profile is kept by its role
\* au.getSession: the initial supabase.auth.getSession() is pending
\* au.initFetch, au.eventFetches: the fetchProfile calls in flight, started
\*   by the getSession path / by onAuthStateChange
\* au.authTimer: the 5 second timeout of the AuthProvider is pending
\* au.signedOutEvent: a SIGNED_OUT event is on its way to the listener
\* au.variant: which of the two ProtectedRoute components the build has;
\*   au.forceRender is the state of the one with the loading timeout
Route(path, requireAuth, requiredRole) ==
  [path |-> path, requireAuth |-> requireAuth, requiredRole |-> requiredRole]

LoginRoute == Route("/login", FALSE, None)

\* the routes of App
Routes ==
  {LoginRoute, Route("/app", TRUE, None), Route("/admin", TRUE, Some("admin"))}

UserRoles == {"admin", "student", "instructor"}

AuthOff ==
  [mounted |-> FALSE, variant |-> "plain", route |-> LoginRoute,
   signedIn |-> FALSE, storedRole |-> None, user |-> None, profile |-> None,
   loading |-> FALSE, getSession |-> FALSE, initFetch |-> FALSE,
   eventFetches |-> 0, authTimer |-> FALSE, signedOutEvent |-> FALSE,
   forceRender |-> FALSE]

\* the page is loaded on a route: useState(true) for loading, the effect
\* starts the timeout and getSession
AuthMounted(variant, route, signedIn, storedRole) ==
  [AuthOff EXCEPT !.mounted = TRUE, !.variant = variant, !.route = route,
                  !.signedIn = signedIn, !.storedRole = storedRole,
                  !.loading = TRUE, !.getSession = TRUE, !.authTimer = TRUE]

\* ProtectedRoute of src/components: what it returns
ProtectedRoute(a) ==
  LET requiredRole == a.route.requiredRole
  IN IF a.loading THEN "spinner"
     ELSE IF a.route.requireAuth /\ a.user = None THEN "to /login"
     ELSE IF ~a.route.requireAuth /\ IsSome(a.user) THEN "to /app"
     ELSE IF /\ IsSome(requiredRole)
             /\ IsSome(a.profile)
             /\ Val(a.profile) # Val(requiredRole)
             /\ Val(a.profile) # "admin"
          THEN "to /app"
          ELSE "children"

\* ProtectedRoute with the loading timeout: what it returns
ProtectedRouteWithTimeout(a) ==
  LET requiredRole == a.route.requiredRole
      isOnLoginPage == a.route.path = "/login"
      isOnAppPage == a.route.path = "/app"
  IN IF a.loading /\ ~a.forceRender THEN "spinner"
     ELSE IF a.route.requireAuth /\ a.user = None
          THEN IF ~isOnLoginPage THEN "to /login" ELSE "children"
     ELSE IF ~a.route.requireAuth /\ IsSome(a.user)
          THEN IF ~isOnAppPage /\ a.route.path # "/admin"
               THEN "to /app" ELSE "children"
     ELSE IF /\ IsSome(requiredRole)
             /\ IsSome(a.profile)
             /\ Val(a.profile) # Val(requiredRole)
             /\ Val(a.profile) # "admin"
             /\ ~isOnAppPage
          THEN "to /app"
          ELSE "children"

\* what the route element of the build renders
Rendered(a) ==
  IF a.variant = "plain" THEN ProtectedRoute(a)
  ELSE ProtectedRouteWithTimeout(a)

\* the .then / .catch of the initial getSession
AuthGetSession(outcome) ==
  /\ au.mounted
  /\ au.getSession
  /\ LET done == [au EXCEPT !.getSession = FALSE]
         cleared == [done EXCEPT !.loading = FALSE, !.authTimer = FALSE]
     IN au' =
          CASE outcome = "session" ->
                 IF au.signedIn
                 THEN [done EXCEPT !.user = Some("u1"), !.initFetch = TRUE]
                 ELSE [cleared EXCEPT !.user = None]
            [] outcome = "authError" ->
                 [cleared EXCEPT !.user = None, !.profile = None,
                                 !.signedOutEvent = au.signedIn,
                                 !.signedIn = FALSE]
            [] outcome = "error" -> cleared
            [] outcome = "timeout" -> cleared
            [] outcome = "throws" ->
                 [cleared EXCEPT !.user = None, !.profile = None]
  /\ UNCHANGED outsideAuth

\* the timeout of 5 seconds set by the effect of the AuthProvider
AuthTimeout ==
  /\ au.mounted
  /\ au.authTimer
  /\ au' = [au EXCEPT !.authTimer = FALSE, !.loading = FALSE,
                      !.profile = None, !.user = None]
  /\ UNCHANGED outsideAuth

\* fetchProfile returns; which is "init" for the call of the getSession
\* path, whose .finally clears the timeout
AuthFetchProfile(which, outcome) ==
  /\ au.mounted
  /\ IF which = "init" THEN au.initFetch ELSE au.eventFetches > 0
  /\ outcome = "data" => IsSome(au.storedRole)
  /\ outcome = "none" => au.storedRole = None
  /\ LET returned ==
           IF which = "init"
           THEN [au EXCEPT !.initFetch = FALSE, !.authTimer = FALSE,
                           !.loading = FALSE]
           ELSE [au EXCEPT !.eventFetches = @ - 1, !.loading = FALSE]
     IN au' =
          CASE outcome = "data" -> [returned EXCEPT !.profile = au.storedRole]
            [] outcome = "none" -> [returned EXCEPT !.profile = None]
            [] outcome = "error" -> [returned EXCEPT !.profile = None]
            [] outcome = "authError" ->
                 [returned EXCEPT !.profile = None, !.user = None,
                                  !.signedOutEvent = au.signedIn,
                                  !.signedIn = FALSE]
  /\ UNCHANGED outsideAuth

\* the user signs in on the login page: the client gets a session
AuthSignIn ==
  /\ au.mounted
  /\ ~au.signedIn
  /\ ~au.signedOutEvent
  /\ au.route.path = "/login"
  /\ Rendered(au) = "children"
  /\ au' = [au EXCEPT !.signedIn = TRUE]
  /\ UNCHANGED outsideAuth

\* onAuthStateChange with a session: TOKEN_REFRESHED only fetches the
\* profile, the other events set the user first
AuthSessionEvent(event) ==
  /\ au.mounted
  /\ au.signedIn
  /\ au.eventFetches < MaxFetches
  /\ au' = IF event = "TOKEN_REFRESHED"
           THEN [au EXCEPT !.eventFetches = @ + 1]
           ELSE [au EXCEPT !.user = Some("u1"), !.eventFetches = @ + 1]
  /\ UNCHANGED outsideAuth

\* signOut of the context
AuthSignOut ==
  /\ au.mounted
  /\ IsSome(au.user)
  /\ Rendered(au) = "children"
  /\ au' = [au EXCEPT !.user = None, !.profile = None,
                      !.signedOutEvent = au.signedIn, !.signedIn = FALSE]
  /\ UNCHANGED outsideAuth

\* onAuthStateChange('SIGNED_OUT', null); the user of the listener's closure
\* is the one of the first render, null, so the listener goes on to its last
\* branch: off the login page window.location.replace('/login') loads the
\* page again
AuthSignedOutEvent ==
  /\ au.mounted
  /\ au.signedOutEvent
  /\ au' = IF au.route.path # "/login"
           THEN AuthMounted(au.variant, LoginRoute, au.signedIn, au.storedRole)
           ELSE [au EXCEPT !.signedOutEvent = FALSE, !.user = None,
                           !.profile = None, !.loading = FALSE]
  /\ UNCHANGED outsideAuth

\* the timeout of 3 seconds of the ProtectedRoute that has one
ForceRenderTimeout ==
  /\ au.mounted
  /\ au.variant = "timeout"
  /\ au.loading
  /\ ~au.forceRender
  /\ au' = [au EXCEPT !.forceRender = TRUE]
  /\ UNCHANGED outsideAuth

\* the <Navigate> the route element returned takes effect
AuthRedirect ==
  /\ au.mounted
  /\ Rendered(au) \in {"to /login", "to /app"}
  /\ au' = [au EXCEPT !.route =
              IF Rendered(au) = "to /login" THEN LoginRoute
              ELSE Route("/app", TRUE, None)]
  /\ UNCHANGED outsideAuth

\* the user follows a link to another route
AuthGoTo(route) ==
  /\ au.mounted
  /\ route # au.route
  /\ au' = [au EXCEPT !.route = route]
  /\ UNCHANGED outsideAuth

AuthStep ==
  \/ \E outcome \in {"session", "authError", "error", "timeout", "throws"} :
        AuthGetSession(outcome)
  \/ AuthTimeout
  \/ \E which \in {"init", "event"},
        outcome \in {"data", "none", "error", "authError"} :
        AuthFetchProfile(which, outcome)
  \/ AuthSignIn
  \/ \E event \in {"SIGNED_IN", "TOKEN_REFRESHED"} : AuthSessionEvent(event)
  \/ AuthSignOut
  \/ AuthSignedOutEvent
  \/ ForceRenderTimeout
  \/ AuthRedirect
  \/ \E route \in Routes : AuthGoTo(route)

\* ------------------------------------------------------------------ specification: JSON import
vars ==
  <<courses, modules, items, chapters, nextId, ed, faults, ie, fe, cm, sent,
    cg, col, rg, au>>

StoreEmpty ==
  /\ courses = <<>>
  /\ modules = <<>>
  /\ items = <<>>
  /\ chapters = <<>>
  /\ nextId = 1

\* a course saved earlier by another administrator, with one module, one
\* item and one chapter
StoreWithCourse ==
  /\ courses = <<[id |-> 1, title |-> "Old", created_by |-> "u0"]>>
  /\ modules = <<[id |-> 2, course_id |-> 1, title |-> "Old module",
                  position |-> 0]>>
  /\ items = <<[id |-> 3, module_id |-> 2, type |-> T_resource,
                title |-> "Old item", position |-> 0, published |-> TRUE,
                content |-> Some(EmptyObject)]>>
  /\ chapters = <<[id |-> 4, item_id |-> 3, title |-> "Old chapter",
                   position |-> 0, content |-> Some("old body"),
                   type |-> "content", game_content |-> None,
                   published |-> TRUE]>>
  /\ nextId = 5

InitImport ==
  /\ faults = 0
  /\ ie = ItemEditorOff
  /\ fe = FormOff
  /\ cm = ChaptersOff
  /\ sent = {}
  /\ rg = RegistryOff
  /\ au = AuthOff
  /\ \E file \in Docs :
       \/ /\ StoreEmpty
          /\ ed = [e \in Editors |->
                     IF e = 1 THEN EditorNew("u1", file) ELSE EditorOff]
       \/ /\ StoreWithCourse
          /\ ed = [e \in Editors |->
                     IF e = 1 THEN EditorOpen("u1", file, 1) ELSE EditorOff]
  /\ cg = CardOff
  /\ col = ColumnOff

NextImport == \E e \in Editors : EditorStep(e)

SpecImport == InitImport /\ [][NextImport]_vars

\* ------------------------------------------------------------------ specification: JSON item editor
\* a module with one item and one chapter, saved earlier
StoreWithItem ==
  /\ courses = <<[id |-> 1, title |-> "Old", created_by |-> "u0"]>>
  /\ modules = <<[id |-> 2, course_id |-> 1, title |-> "Old module",
                  position |-> 0]>>
  /\ items = <<[id |-> 3, module_id |-> 2, type |-> T_resource,
                title |-> <<"O", "l", "d">>, position |-> 0,
                published |-> TRUE, content |-> Some(EmptyObject)]>>
  /\ chapters = <<[id |-> 4, item_id |-> 3, title |-> "Old chapter",
                   position |-> 0, content |-> Some("old body"),
                   type |-> "content", game_content |-> None,
                   published |-> TRUE]>>
  /\ nextId = 5

\* the editor is opened on a new item (with or without ?module_id) or on
\* the existing item
InitItemJson ==
  /\ faults = 0
  /\ fe = FormOff
  /\ cm = ChaptersOff
  /\ sent = {}
  /\ rg = RegistryOff
  /\ au = AuthOff
  /\ ed = [e \in Editors |-> EditorOff]
  /\ StoreWithItem
  /\ \E file \in ItemFiles :
       \/ \E mid \in {0, 2} : ie = ItemEditorNew(file, mid)
       \/ ie = ItemEditorOpen(file, 3)
  /\ cg = CardOff
  /\ col = ColumnOff

NextItemJson == ItemEditorStep

SpecItemJson == InitItemJson /\ [][NextItemJson]_vars

\* C7: item type normalisation.  Every stored item has a type of the
\* enumeration {resource, slide, exercise, tp, game}: a raw type is mapped
\* through the synonym table or the save fails.
C7_StoredTypesInEnum ==
  \A i \in Range(items) : i.type \in ItemTypes

\* the item editor saved, without error, an item whose raw type the course
\* importer maps to game
C7_SynonymSavedRaw ==
  /\ ie.pc = "idle"
  /\ ie.result = "ok"
  /\ ie.failed = {}
  /\ ie.doc.type \notin ItemTypes
  /\ validateItemType(ie.doc.type) = Some(T_game)
  /\ \E i \in Range(items) : i.id = ie.itemId /\ i.type = ie.doc.type

\* ------------------------------------------------------------------ properties of the JSON import
\* handleSave of editor e has returned
Returned(e) == ed[e].pc = "idle" /\ ed[e].result # "none"

\* the store calls of the last save that failed (the mount fetch is not
\* part of a save)
SaveFailures(e) == ed[e].g.failed \ {"bg.course", "bg.modules", "bg.chapters"}

\* the last save returned without an error and without a failed store call
CleanImport(e) ==
  Returned(e) /\ ed[e].result = "ok" /\ SaveFailures(e) = {}

\* titles of the Document's modules, items and chapters, as a tree
DocTitles(doc) ==
  [k \in 1..Len(doc.modules) |->
    [title |-> doc.modules[k].title,
     items |->
       LET its == doc.modules[k].items
       IN [j \in 1..Len(its) |->
            [title |-> its[j].title,
             chapters |->
               LET chs == OrElse(its[j].chapters, <<>>)
               IN [c \in 1..Len(chs) |-> chs[c].title]]]]]

\* titles of the stored modules, items and chapters of a course, as a tree
StoredTitles(cid) ==
  LET t == SubtreeOf(cid)
  IN [k \in 1..Len(t) |->
       [title |-> t[k].title,
        items |->
          [j \in 1..Len(t[k].items) |->
            [title |-> t[k].items[j].title,
             chapters |->
               [c \in 1..Len(t[k].items[j].chapters) |->
                  t[k].items[j].chapters[c].title]]]]]

InsertOps == {"insertModule", "insertItems", "insertChapters"}

\* C1: all-or-nothing.  Once an import into an existing course, in which a
\* module, item or chapter insert failed after the old modules were deleted,
\* has returned, the course holds none of the Document's modules, items and
\* chapters, or all of them.
C1_AllOrNothing ==
  \A e \in Editors :
    (/\ Returned(e)
     /\ ~ed[e].g.isNew
     /\ ed[e].g.preTree # <<>>
     /\ "deleteOld" \notin SaveFailures(e)
     /\ SaveFailures(e) \cap InsertOps # {}) =>
      \/ ModulesOf(ed[e].courseId) = <<>>
      \/ StoredTitles(ed[e].courseId) = DocTitles(ed[e].g.doc)

\* a failed insert left a strict, non-empty part of the Document in the store
C1_PartialTreeLeft ==
  \E e \in Editors :
    /\ Returned(e)
    /\ ~ed[e].g.isNew
    /\ ed[e].g.preTree # <<>>
    /\ "insertModule" \in SaveFailures(e)
    /\ Len(ModulesOf(ed[e].courseId)) = 1
    /\ Len(ed[e].g.doc.modules) = 2

\* a Document whose positions are the array indexes, whose item types are
\* members of the enumeration, and whose game items and game chapters carry
\* a payload their validator accepts
WellFormedChapter(ch, index) ==
  /\ ch.position = index
  /\ ch.type \in {None, Some("content"), Some("game")}
  /\ IF ch.type = Some("game")
     THEN /\ IsSome(ch.game_content)
          /\ GamePayloadValid(Val(ch.game_content))
          /\ ch.content = None
     ELSE ch.game_content = None

WellFormedItem(item, index) ==
  /\ item.type \in ItemTypes
  /\ item.position \in {None, Some(index)}
  /\ (item.type = T_game =>
        IsSome(item.content) /\ GamePayloadValid(Val(item.content)))
  /\ \A c \in 1..Len(OrElse(item.chapters, <<>>)) :
       WellFormedChapter(Val(item.chapters)[c], c - 1)

WellFormed(doc) ==
  \A k \in 1..Len(doc.modules) :
    /\ doc.modules[k].position = k - 1
    /\ \A j \in 1..Len(doc.modules[k].items) :
         WellFormedItem(doc.modules[k].items[j], j - 1)

\* a field the Document omits is ignored
Covers(d, x) == d = None \/ d = x

ChapterMatches(d, x) ==
  /\ d.title = x.title
  /\ d.position = x.position
  /\ Covers(d.content, x.content)
  /\ Covers(d.type, x.type)
  /\ Covers(d.game_content, x.game_content)

ItemMatches(d, x) ==
  /\ d.type = x.type
  /\ d.title = x.title
  /\ Covers(d.position, x.position)
  /\ Covers(d.published, x.published)
  /\ Covers(d.content, x.content)
  /\ LET dc == OrElse(d.chapters, <<>>)
         xc == OrElse(x.chapters, <<>>)
     IN d.chapters = None
        \/ /\ Len(dc) = Len(xc)
           /\ \A c \in 1..Len(dc) : ChapterMatches(dc[c], xc[c])

\* structural equality of Document d and export x, ignoring what d omits
DocMatches(d, x) ==
  /\ d.title = x.title
  /\ Len(d.modules) = Len(x.modules)
  /\ \A k \in 1..Len(d.modules) :
       /\ d.modules[k].title = x.modules[k].title
       /\ d.modules[k].position = x.modules[k].position
       /\ Len(d.modules[k].items) = Len(x.modules[k].items)
       /\ \A j \in 1..Len(d.modules[k].items) :
            ItemMatches(d.modules[k].items[j], x.modules[k].items[j])

HasGameChapter(doc) ==
  \E k \in 1..Len(doc.modules) :
    \E j \in 1..Len(doc.modules[k].items) :
      \E c \in 1..Len(OrElse(doc.modules[k].items[j].chapters, <<>>)) :
        Val(doc.modules[k].items[j].chapters)[c].type = Some("game")

\* C2: round trip.  After an import of a well-formed Document that returned
\* without error and without a failed store call, the export of the course
\* is structurally equal to the Document.
C2_RoundTrip ==
  \A e \in Editors :
    (CleanImport(e) /\ WellFormed(ed[e].g.doc)) =>
      DocMatches(ed[e].g.doc, ExportCourse(ed[e].courseId))

\* a well-formed Document with a game chapter was imported without failure
C2_GameChapterImported ==
  \E e \in Editors :
    /\ CleanImport(e)
    /\ WellFormed(ed[e].g.doc)
    /\ HasGameChapter(ed[e].g.doc)

\* the last two saves of editor e imported the same Document into the same
\* existing course, both without an error or a failed store call
ImportedTwice(e) ==
  /\ CleanImport(e)
  /\ ed[e].g.prevClean
  /\ ed[e].g.prevDoc = Some(ed[e].g.doc)
  /\ IsSome(ed[e].g.preExport)

\* C3: idempotence.  A second import of the same Document into the same
\* course, with no store failure, leaves an export equal to the export after
\* the first import, and the same modules, items and chapters with the same
\* positions: nothing is duplicated.
C3_Idempotent ==
  \A e \in Editors :
    ImportedTwice(e) =>
      /\ ExportCourse(ed[e].courseId) = Val(ed[e].g.preExport)
      /\ SubtreeOf(ed[e].courseId) = ed[e].g.preTree

\* a Document of two modules with items was imported twice in a row
C3_ImportedTwice ==
  \E e \in Editors :
    /\ ImportedTwice(e)
    /\ Len(ed[e].g.doc.modules) = 2
    /\ Len(ed[e].g.doc.modules[1].items) > 0
    /\ Len(ed[e].g.preTree) = 2

\* the stored positions of the course are the indexes of the rows in
\* insertion order, which is the order of the Document's arrays
PositionsAreIndexes(cid) ==
  LET t == SubtreeOf(cid)
  IN \A k \in 1..Len(t) :
       /\ t[k].position = k - 1
       /\ \A j \in 1..Len(t[k].items) :
            /\ t[k].items[j].position = j - 1
            /\ \A c \in 1..Len(t[k].items[j].chapters) :
                 t[k].items[j].chapters[c].position = c - 1

\* C4: after every import the stored position of each module, item and
\* chapter is its zero-based index in its parent's array in the Document,
\* whatever position the Document carried.
C4_PositionIsIndex ==
  \A e \in Editors :
    (CleanImport(e) /\ StoredTitles(ed[e].courseId) = DocTitles(ed[e].g.doc))
      => PositionsAreIndexes(ed[e].courseId)

\* a Document whose modules carry out-of-order positions was imported
C4_DisorderImported ==
  \E e \in Editors :
    /\ CleanImport(e)
    /\ Len(ed[e].g.doc.modules) = 2
    /\ ed[e].g.doc.modules[1].position = 1
    /\ StoredTitles(ed[e].courseId) = DocTitles(ed[e].g.doc)

Injective(rows) ==
  \A a, b \in 1..Len(rows) : a # b => rows[a].position # rows[b].position

\* no two modules of a course, items of a module or chapters of an item
\* share a position
PositionsUnique ==
  /\ \A c \in Range(courses) : Injective(ModulesOf(c.id))
  /\ \A m \in Range(modules) : Injective(ItemsOf(m.id))
  /\ \A i \in Range(items) : Injective(ChaptersOf(i.id))

\* C5: position uniqueness.  Whenever no save is in progress, no two modules
\* of the same course, items of the same module or chapters of the same item
\* have the same position.
C5_PositionsUnique ==
  (\A e \in Editors : ed[e].pc \in {"idle", "off"}) => PositionsUnique

\* an import that returned without error stored two modules at one position
C5_DuplicateStored ==
  \E e \in Editors :
    /\ CleanImport(e)
    /\ Len(ModulesOf(ed[e].courseId)) = 2
    /\ ~Injective(ModulesOf(ed[e].courseId))

\* C6: validation precedes every store write.  When an import is rejected
\* because an item type cannot be mapped, the store is exactly as it was
\* when the import began.
C6_ValidationBeforeWrites ==
  \A e \in Editors :
    (Returned(e) /\ ed[e].error = "validation") => Snapshot = ed[e].g.pre

\* an edit-mode import was rejected for an unmappable type in its second
\* module, after the old module was deleted and the first module inserted
C6_RejectedAfterWrites ==
  \E e \in Editors :
    /\ Returned(e)
    /\ ed[e].error = "validation"
    /\ ~ed[e].g.isNew
    /\ Len(ed[e].g.doc.modules) = 2
    /\ ed[e].g.pre.modules # <<>>
    /\ Len(ModulesOf(ed[e].courseId)) = 2

\* the game payload an item or a chapter of the Document declares is missing
\* or rejected by the registry
InvalidGameItem(item) ==
  /\ validateItemType(item.type) = Some(T_game)
  /\ ~(IsSome(item.content) /\ GamePayloadValid(Val(item.content)))

InvalidGameChapter(ch) ==
  /\ ch.type = Some("game")
  /\ ~(IsSome(ch.game_content) /\ GamePayloadValid(Val(ch.game_content)))

HasInvalidGame(doc) ==
  \E k \in 1..Len(doc.modules) :
    \E j \in 1..Len(doc.modules[k].items) :
      LET item == doc.modules[k].items[j]
      IN \/ InvalidGameItem(item)
         \/ \E c \in 1..Len(OrElse(item.chapters, <<>>)) :
              InvalidGameChapter(Val(item.chapters)[c])

\* every stored game item and game chapter carries a payload its validator
\* accepts
StoredGamesValid ==
  /\ \A i \in Range(items) :
       i.type = T_game => IsSome(i.content) /\ GamePayloadValid(Val(i.content))
  /\ \A c \in Range(chapters) :
       c.type = "game" =>
         IsSome(c.game_content) /\ GamePayloadValid(Val(c.game_content))

\* C8: game payloads are validated at import and invalidity is fatal.  An
\* import of a Document with a game item or game chapter whose payload has
\* no gameType or is rejected by its validator returns an error, and no
\* stored game item or game chapter carries such a payload.
C8_GamePayloadsValidated ==
  \A e \in Editors :
    (Returned(e) /\ HasInvalidGame(ed[e].g.doc)) =>
      /\ ed[e].result = "error"
      /\ StoredGamesValid

\* a matching game with pairs: [] was imported without error and stored
C8_EmptyPairsStored ==
  \E e \in Editors :
    /\ CleanImport(e)
    /\ HasInvalidGame(ed[e].g.doc)
    /\ \E i \in Range(items) :
         /\ i.type = T_game
         /\ Val(i.content).gameType = Some("matching")
         /\ Val(i.content).pairs = Some(<<>>)

\* ------------------------------------------------------------------ specification: form editor and ChapterManager
\* a course with one module, one item and two chapters, saved earlier
StoreForForm ==
  /\ courses = <<[id |-> 1, title |-> <<"O">>, created_by |-> "u0"]>>
  /\ modules = <<[id |-> 2, course_id |-> 1, title |-> "Old module",
                  position |-> 0]>>
  /\ items = <<[id |-> 3, module_id |-> 2, type |-> T_resource,
                title |-> "Old item", position |-> 0, published |-> TRUE,
                content |-> None]>>
  /\ chapters = <<[id |-> 4, item_id |-> 3, title |-> "A",
                   position |-> 0, content |-> Some("old body"),
                   type |-> "content", game_content |-> None,
                   published |-> TRUE],
                  [id |-> 5, item_id |-> 3, title |-> "Nouveau chapitre",
                   position |-> 1, content |-> None,
                   type |-> "content", game_content |-> None,
                   published |-> TRUE]>>
  /\ nextId = 6

\* the form editor on a new course or on the stored course, or the
\* ChapterManager on the stored item
InitForm ==
  /\ faults = 0
  /\ ed = [e \in Editors |-> EditorOff]
  /\ ie = ItemEditorOff
  /\ sent = {}
  /\ rg = RegistryOff
  /\ au = AuthOff
  /\ \/ StoreEmpty /\ fe = FormNew("u1") /\ cm = ChaptersOff
     \/ StoreForForm /\ fe = FormOpen("u1", 1) /\ cm = ChaptersOff
     \/ StoreForForm /\ fe = FormOff /\ cm = ChaptersMounted(3)
  /\ cg = CardOff
  /\ col = ColumnOff

NextForm == FormStep \/ ChaptersStep

SpecForm == InitForm /\ [][NextForm]_vars

\* the id columns of the stored rows
StoredIds ==
  UNION { {c.id} : c \in Range(courses) }
  \cup UNION { {m.id, m.course_id} : m \in Range(modules) }
  \cup UNION { {i.id, i.module_id} : i \in Range(items) }
  \cup UNION { {c.id, c.item_id} : c \in Range(chapters) }

\* C9: placeholder ids are never persisted.  No id, course_id, module_id or
\* item_id sent to the store by a save of the form editor or of the
\* ChapterManager, and none of a stored row, is a placeholder.
C9_NoPlaceholderPersisted ==
  \A v \in sent \cup StoredIds : ~startsWithTemp(v)

\* a save of a new course created a placeholder module with a placeholder
\* item and returned without error
C9_PlaceholdersSaved ==
  /\ fe.pc = "idle"
  /\ fe.result = "ok"
  /\ fe.isNew
  /\ fe.failed = {}
  /\ Len(items) > 0
  /\ \E v \in sent : v > 0


\* ------------------------------------------------------------------ specification: matching games
\* One game is mounted, with its props; nothing else is open.
InitGames ==
  /\ StoreEmpty
  /\ faults = 0
  /\ ed = [e \in Editors |-> EditorOff]
  /\ ie = ItemEditorOff
  /\ fe = FormOff
  /\ cm = ChaptersOff
  /\ sent = {}
  /\ rg = RegistryOff
  /\ au = AuthOff
  /\ \/ /\ \E n \in 1..MaxPairs : cg = CardMounted(n)
        /\ col = ColumnOff
     \/ /\ \E g \in ColumnGames : col = ColumnMounted(g)
        /\ cg = CardOff

NextGames == CardStep \/ ColumnStep

SpecGames == InitGames /\ [][NextGames]_vars

\* C10: in both engines the score callback has been called exactly once in a
\* session that is finished and not at all in one that is not: it is called
\* on the transition to finished and never again, whatever renders follow.
C10_ScoreOncePerSession ==
  /\ cg.scores = (IF cg.gameFinished THEN 1 ELSE 0)
  /\ col.scores = (IF col.gameFinished THEN 1 ELSE 0)

\* a finished card game, after a mismatch, in which the clock has gone on
\* since the finish and the last mismatch timeout has run
C10_RendersAfterFinish ==
  /\ cg.gameFinished
  /\ cg.attempts > 0
  /\ cg.timeouts = {}
  /\ cg.now > Val(cg.startTime) + cg.elapsedTime
  /\ cg.scores = 1


\* the cards that lie face up without being matched
FaceUpUnmatched ==
  { c \in DOMAIN cg.cards : cg.cards[c].flipped /\ ~cg.cards[c].matched }

\* C11: input lock of the card game: while a mismatched pair waits for its
\* delay no click is accepted, so at no time do more than two unmatched
\* cards lie face up.
C11_InputLock == Cardinality(FaceUpUnmatched) <= 2

\* a third card was turned and compared while the mismatched pair was
\* still waiting for its delay
C11_ThirdCardTurned ==
  /\ cg.gameStarted
  /\ cg.timeouts # {}
  /\ Cardinality(FaceUpUnmatched) > 2


\* {left: i, right: j} is an element of the correctMatches prop
InCorrectMatches(i, j) == Match(i, j) \in Range(col.correctMatches)

\* C12: the column game decides a pair by its indexes: a step that
\* evaluates left i against right j adds both items to matchedPairs if
\* {left: i, right: j} is in correctMatches, and otherwise leaves
\* matchedPairs as it was.
C12_MatchByIndex ==
  [][col'.attempts = col.attempts + 1 =>
       /\ IsSome(col'.feedback)
       /\ LET f == Val(col'.feedback)
              i == IndexOf(f.left)
              j == IndexOf(f.right)
          IN /\ f.correct = InCorrectMatches(i, j)
             /\ col'.matchedPairs =
                  IF InCorrectMatches(i, j)
                  THEN col.matchedPairs \cup {leftId(i), rightId(j)}
                  ELSE col.matchedPairs]_vars

\* with correctMatches = [{0,0},{1,1}]: left 0 against right 1 was refused
\* and left 0 against right 0 has just been registered
C12_WrongThenRight ==
  /\ col.correctMatches = <<Match(0, 0), Match(1, 1)>>
  /\ col.attempts = 2
  /\ col.feedback = Some([left |-> leftId(0), right |-> rightId(0),
                          correct |-> TRUE])
  /\ col.matchedPairs = {leftId(0), rightId(0)}


\* C13: the score the card game emits when it finishes is
\* max(0, 1000 - 10 * seconds since the start) +
\* max(0, 1000 - 50 * mismatched reveals of the session), reported with
\* those two numbers, and lies in 0..2000.
C13_CardScoreFormula ==
  cg.gameFinished =>
    /\ IsSome(cg.lastScore)
    /\ LET s == Val(cg.lastScore)
           seconds == Val(cg.finishedAt) - Val(cg.startTime)
       IN /\ s.time = seconds
          /\ s.attempts = cg.mismatches
          /\ s.score = Max(0, 1000 - (10 * seconds))
                       + Max(0, 1000 - (50 * cg.mismatches))
          /\ s.score \in 0..2000

\* a game finished after 5 seconds without a mismatch has emitted 1950
C13_Scored1950 ==
  /\ cg.gameFinished
  /\ cg.mismatches = 0
  /\ IsSome(cg.lastScore)
  /\ Val(cg.lastScore).time = 5
  /\ Val(cg.lastScore).score = 1950


\* C14: the score the column game emits when it finishes is
\* max(0, 1000 - 5 * seconds since the start) +
\* max(0, 1000 - 100 * (attempts - required matches)), where attempts is
\* the number of pairs evaluated in the session, correct or not.
C14_ColumnScoreFormula ==
  col.gameFinished =>
    /\ IsSome(col.lastScore)
    /\ LET s == Val(col.lastScore)
           seconds == Val(col.finishedAt) - Val(col.startTime)
           required == Len(col.correctMatches)
       IN /\ s.time = seconds
          /\ s.attempts = col.evaluations
          /\ s.totalMatches = required
          /\ s.score = Max(0, 1000 - (5 * seconds))
                       + Max(0, 1000 - (100 * (col.evaluations - required)))

\* a game of two matches finished after one wrong pair and some seconds
C14_ScoredAfterWrongPair ==
  /\ col.gameFinished
  /\ Len(col.correctMatches) = 2
  /\ col.evaluations = 3
  /\ IsSome(col.lastScore)
  /\ Val(col.lastScore).time = 2
  /\ Val(col.lastScore).score = 1890


\* C15: every stored chapter has exactly one of its body (content) and its
\* game_content, chosen by its kind: a game chapter has game_content and no
\* body, a content chapter has a body and no game_content.
C15_OnePayloadByKind ==
  \A c \in Range(chapters) :
     IF c.type = "game"
     THEN IsSome(c.game_content) /\ c.content = None
     ELSE IsSome(c.content) /\ c.game_content = None

\* an import returned without error and wrote a game chapter that has both
\* a body and a game_content
C15_BothPayloadsStored ==
  \E e \in Editors :
     /\ CleanImport(e)
     /\ \E c \in Range(chapters) :
          c.type = "game" /\ IsSome(c.content) /\ IsSome(c.game_content)


\* ------------------------------------------------------------------ specification: two editors on one course
\* Two administrators have the JSON editor open on the stored course, each
\* with a file of their own to import; or one has it open to create a course.
\* Each has one save left, and no store call fails.
ConcurrentDocs ==
  { DocOf(1, 1, "index", "plain"), DocOf(2, 0, "index", "plain") }

InitConcurrent ==
  /\ faults = MaxFaults
  /\ ie = ItemEditorOff
  /\ fe = FormOff
  /\ cm = ChaptersOff
  /\ sent = {}
  /\ rg = RegistryOff
  /\ au = AuthOff
  /\ cg = CardOff
  /\ col = ColumnOff
  /\ \E f1, f2 \in ConcurrentDocs :
       /\ f1 # f2
       /\ \/ /\ StoreWithCourse
             /\ ed = [e \in Editors |->
                        [EditorOpen(IF e = 1 THEN "u1" ELSE "u2",
                                    IF e = 1 THEN f1 ELSE f2, 1)
                           EXCEPT !.saves = MaxSaves - 1]]
          \/ /\ StoreEmpty
             /\ ed = [e \in Editors |->
                        IF e = 1
                        THEN [EditorNew("u1", f1) EXCEPT !.saves = MaxSaves - 1]
                        ELSE EditorOff]

SpecConcurrent == InitConcurrent /\ [][NextImport]_vars

\* both editors have saved once, with no store call failing, and both
\* saves have returned
BothImported ==
  \A e \in Editors :
     /\ Returned(e)
     /\ ed[e].saves = MaxSaves
     /\ ed[e].result = "ok"
     /\ ed[e].g.failed = {}

\* C16: last writer wins: once two editors have each imported a Document
\* into the same course, the stored tree of the course is the tree of one
\* of the two Documents, not a mix or a union of both.
C16_LastWriterWins ==
  BothImported =>
    \E e \in Editors : StoredTitles(1) = DocTitles(ed[e].g.doc)

\* both imports are done and the course holds the modules of both Documents
C16_UnionStored ==
  /\ BothImported
  /\ ed[1].g.doc \in ConcurrentDocs
  /\ ed[2].g.doc \in ConcurrentDocs
  /\ Len(StoredTitles(1)) = Len(ed[1].g.doc.modules) + Len(ed[2].g.doc.modules)


\* handleSave of editor e has returned and no error is shown
ReportedSuccess(e) ==
  Returned(e) /\ ed[e].result = "ok" /\ ed[e].error = ""

\* the store calls that replace the subtree
ReplaceOps == {"selectOld", "deleteOld"} \cup InsertOps

\* C17: every storage failure of an import is surfaced: an import that
\* reports success had no failed deletion of the prior modules and no failed
\* module, item or chapter insert, and the course holds the modules, items
\* and chapters of the Document and nothing else.
C17_FailuresSurfaced ==
  \A e \in Editors :
     ReportedSuccess(e) =>
       /\ SaveFailures(e) \cap ReplaceOps = {}
       /\ StoredTitles(ed[e].courseId) = DocTitles(ed[e].g.doc)

\* an import reported success although its chapters insert failed, and the
\* chapters of the Document are not stored
C17_ChaptersDroppedSilently ==
  \E e \in Editors :
     /\ ReportedSuccess(e)
     /\ SaveFailures(e) = {"insertChapters"}
     /\ StoredTitles(ed[e].courseId) # DocTitles(ed[e].g.doc)


\* C18: an import into an existing course keeps the course row's identity:
\* after it the course is stored under the same id and its created_by is
\* still the principal it had before the import.
C18_CreatorKept ==
  \A e \in Editors :
     (Returned(e) /\ ~ed[e].g.isNew) =>
       \A c \in Range(ed[e].g.pre.courses) :
          c.id = ed[e].courseId =>
            \E d \in Range(courses) :
               d.id = c.id /\ d.created_by = c.created_by

\* an import by u1 into the course u0 created has returned without error
\* and the course row now names u1 as its creator
C18_CreatorOverwritten ==
  \E e \in Editors :
     /\ CleanImport(e)
     /\ ~ed[e].g.isNew
     /\ ed[e].user = "u1"
     /\ \E c \in Range(ed[e].g.pre.courses) :
          c.id = ed[e].courseId /\ c.created_by = "u0"
     /\ \E d \in Range(courses) :
          d.id = ed[e].courseId /\ d.created_by = "u1"


\* ------------------------------------------------------------------ specification: game payloads
InitRegistry ==
  /\ StoreEmpty
  /\ faults = 0
  /\ ed = [e \in Editors |-> EditorOff]
  /\ ie = ItemEditorOff
  /\ fe = FormOff
  /\ cm = ChaptersOff
  /\ sent = {}
  /\ cg = CardOff
  /\ col = ColumnOff
  /\ \E gameContent \in GameContents : rg = RegistryGiven(gameContent)
  /\ au = AuthOff

NextRegistry == RegistryStep

SpecRegistry == InitRegistry /\ [][NextRegistry]_vars

\* ------------------------------------------------------------------ specification: protected routes
InitAuth ==
  /\ StoreEmpty
  /\ faults = 0
  /\ ed = [e \in Editors |-> EditorOff]
  /\ ie = ItemEditorOff
  /\ fe = FormOff
  /\ cm = ChaptersOff
  /\ sent = {}
  /\ cg = CardOff
  /\ col = ColumnOff
  /\ rg = RegistryOff
  /\ \E variant \in {"plain", "timeout"}, route \in Routes,
        signedIn \in BOOLEAN,
        storedRole \in {None} \cup {Some(r) : r \in UserRoles} :
        au = AuthMounted(variant, route, signedIn, storedRole)

NextAuth == AuthStep

SpecAuth == InitAuth /\ [][NextAuth]_vars


\* the number of wrapping objects around the innermost object
RECURSIVE NestingDepth(_)
NestingDepth(config) ==
  IF IsSome(config.game_content)
  THEN 1 + NestingDepth(Val(config.game_content))
  ELSE 0

\* the object handed to extractGameContent, directly or as a JSON string
GivenObject ==
  CASE rg.gameContent.kind = "object" -> rg.gameContent.obj
    [] rg.gameContent.kind = "string" /\ IsSome(rg.gameContent.json) ->
         Val(rg.gameContent.json).obj
    [] OTHER -> None

\* C19: unwrapping of a game payload is bounded: an object that wraps its
\* config in one game_content is unwrapped to that config, and an object
\* nested two or more levels deep is reported as invalid (null), not
\* unwrapped further.
C19_UnwrapOnce ==
  (rg.pc # "given" /\ IsSome(GivenObject)) =>
     LET given == Val(GivenObject)
     IN /\ NestingDepth(given) = 1 =>
             rg.extracted = extractGameContent(JsObject(Val(given.game_content)))
        /\ NestingDepth(given) >= 2 => rg.extracted = ReturnsNull

\* a payload nested two levels deep was unwrapped to its innermost config,
\* which the validator of its game then accepted
C19_DeepPayloadAccepted ==
  /\ rg.pc = "validated"
  /\ IsSome(GivenObject)
  /\ NestingDepth(Val(GivenObject)) = 2
  /\ rg.extracted.tag = "config"
  /\ NestingDepth(Val(rg.extracted.config)) = 0
  /\ rg.valid


\* every {left, right} of the list names an item of its column
IndexesInRange(config) ==
  \A k \in 1..Len(Val(config.correctMatches)) :
     LET m == Val(config.correctMatches)[k]
     IN /\ m.left \in 0..(Len(Val(config.leftColumn)) - 1)
        /\ m.right \in 0..(Len(Val(config.rightColumn)) - 1)

\* the configs each built-in game requires
RequiredOfConfig(config) ==
  CASE Val(config.gameType) = "matching" -> NonEmptyArray(config.pairs)
    [] Val(config.gameType) = "column-matching" ->
         /\ NonEmptyArray(config.leftColumn)
         /\ NonEmptyArray(config.rightColumn)
         /\ NonEmptyArray(config.correctMatches)
         /\ IndexesInRange(config)
    [] Val(config.gameType) = "api-types" ->
         NonEmptyArray(config.apiTypes) /\ NonEmptyArray(config.scenarios)
    [] Val(config.gameType) = "format-files" ->
         /\ NonEmptyArray(config.levels)
         /\ \A k \in 1..Len(Val(config.levels)) :
               IsSome(Val(config.levels)[k].questions)
    [] Val(config.gameType) = "json-file-types" ->
         NonEmptyArray(config.fileTypes) /\ NonEmptyArray(config.examples)

\* C20: the validator of each built-in game returns true exactly for the
\* configs the game requires: matching a non-empty pairs list;
\* column-matching non-empty leftColumn, rightColumn and correctMatches with
\* every index inside its column; api-types non-empty apiTypes and
\* scenarios; format-files non-empty levels, each with questions;
\* json-file-types non-empty fileTypes and examples.
C20_ValidatorsExact ==
  (rg.pc = "validated" /\ rg.registered) =>
     rg.valid = RequiredOfConfig(Val(rg.extracted.config))

\* a column-matching config whose correctMatches names an item outside its
\* column was validated as valid
C20_BadIndexAccepted ==
  /\ rg.pc = "validated"
  /\ rg.valid
  /\ Val(rg.extracted.config).gameType = Some("column-matching")
  /\ NonEmptyArray(Val(rg.extracted.config).correctMatches)
  /\ ~IndexesInRange(Val(rg.extracted.config))


\* ------------------------------------------------------------------ properties of the game sessions
\* the card game is in the state the mount leaves it in
CardNotStartedState ==
  /\ ~cg.gameFinished
  /\ cg.flippedCards = <<>>
  /\ cg.matchedPairs = 0
  /\ cg.attempts = 0
  /\ cg.elapsedTime = 0
  /\ cg.startTime = None
  /\ \A c \in DOMAIN cg.cards : ~cg.cards[c].flipped /\ ~cg.cards[c].matched

\* the column game is in the state the mount leaves it in
ColumnNotStartedState ==
  /\ ~col.gameFinished
  /\ col.selectedLeft = None /\ col.selectedRight = None
  /\ col.matchedPairs = {}
  /\ col.attempts = 0
  /\ col.elapsedTime = 0
  /\ col.startTime = None
  /\ col.feedback = None
  /\ \A i \in DOMAIN col.leftItems : col.leftItems[i] = None
  /\ \A i \in DOMAIN col.rightItems : col.rightItems[i] = None

\* C21: a manual reset discards the session cleanly: a game that is not
\* started has every counter, selection, card flag and the clock at their
\* initial values and has emitted no score since the reset, no mismatch
\* flip-back of the discarded session is left pending, and no feedback timer
\* of the discarded session changes what a later session shows.
C21_ResetDiscards ==
  /\ (cg.mounted /\ ~cg.gameStarted) =>
        CardNotStartedState /\ cg.scores = 0 /\ cg.timeouts = {}
  /\ (col.mounted /\ ~col.gameStarted) =>
        ColumnNotStartedState /\ col.scores = 0
  /\ ~col.staleCleared

\* in a column game started after a reset, the feedback of a pair was
\* cleared by a timer of the session before, while the session's own timer
\* for it is still pending
C21_StaleTimerCleared ==
  /\ col.gameStarted
  /\ col.staleCleared
  /\ col.evaluations = 1
  /\ col.feedback = None
  /\ col.feedbackTimer


\* the state of a session
CardPhase(r) ==
  IF ~r.gameStarted THEN "NotStarted"
  ELSE IF r.gameFinished THEN "Finished" ELSE "InProgress"

ColumnPhase(r) ==
  IF ~r.gameStarted THEN "NotStarted"
  ELSE IF r.gameFinished THEN "Finished" ELSE "InProgress"

\* what clicks act on
CardBoard(r) == <<r.cards, r.flippedCards, r.matchedPairs, r.attempts>>

ColumnBoard(r) ==
  <<r.leftItems, r.rightItems, r.selectedLeft, r.selectedRight,
    r.matchedPairs, r.attempts>>

\* the steps within one session and the one that ends it
CardSessionStep(old, new) ==
  \/ /\ CardPhase(old) = "NotStarted"
     /\ \/ CardPhase(new) = "NotStarted" /\ CardBoard(new) = CardBoard(old)
        \/ /\ CardPhase(new) = "InProgress"
           /\ new.attempts = 0 /\ new.matchedPairs = 0
           /\ new.elapsedTime = 0 /\ new.startTime = Some(old.now)
  \/ /\ CardPhase(old) = "InProgress"
     /\ new.matchedPairs >= old.matchedPairs
     /\ new.attempts >= old.attempts
     /\ new.startTime = old.startTime
     /\ CardPhase(new) =
          IF new.matchedPairs = new.pairs THEN "Finished" ELSE "InProgress"
  \/ /\ CardPhase(old) = "Finished"
     /\ \/ CardPhase(new) = "Finished" /\ CardBoard(new) = CardBoard(old)
        \/ CardPhase(new) = "NotStarted"    \* the reset: the session is over

ColumnSessionStep(old, new) ==
  \/ /\ ColumnPhase(old) = "NotStarted"
     /\ \/ /\ ColumnPhase(new) = "NotStarted"
           /\ ColumnBoard(new) = ColumnBoard(old)
        \/ /\ ColumnPhase(new) = "InProgress"
           /\ new.attempts = 0 /\ new.matchedPairs = {}
           /\ new.elapsedTime = 0 /\ new.startTime = Some(old.now)
  \/ /\ ColumnPhase(old) = "InProgress"
     /\ old.matchedPairs \subseteq new.matchedPairs
     /\ new.attempts >= old.attempts
     /\ new.startTime = old.startTime
     /\ ColumnPhase(new) =
          IF Cardinality(new.matchedPairs) = 2 * Len(new.correctMatches)
          THEN "Finished" ELSE "InProgress"
  \/ /\ ColumnPhase(old) = "Finished"
     /\ \/ /\ ColumnPhase(new) = "Finished"
           /\ ColumnBoard(new) = ColumnBoard(old)
        \/ ColumnPhase(new) = "NotStarted"  \* the reset: the session is over

\* C22: the state machine of a game session: a session only moves from
\* NotStarted to InProgress, by the start, which zeroes attempts, the
\* matched count and the clock, and from InProgress to Finished, exactly when
\* the matched count equals the required total; no click, tick or delay
\* expiry moves it backward or lowers a counter, and no click changes
\* anything in NotStarted or in Finished.
C22_SessionStateMachine ==
  [][CardSessionStep(cg, cg') /\ ColumnSessionStep(col, col')]_vars

\* a card game of two pairs that went through a mismatch and its delay is
\* finished
C22_FinishedAfterDetour ==
  /\ cg.gameFinished
  /\ cg.mismatches > 0
  /\ cg.matchedPairs = 2
  /\ cg.timeouts = {}


\* C23: in the column game a matched item is unselectable for the rest of
\* the session: within a session matchedPairs only grows and a matchedId
\* once set is kept, no step selects a matched item, and no step evaluates
\* a pair with a matched item in it, so each item is matched at most once.
C23_MatchedUnselectable ==
  [][(col.gameStarted /\ col'.gameStarted) =>
       /\ col.matchedPairs \subseteq col'.matchedPairs
       /\ \A id \in col.matchedPairs :
             col'.selectedLeft # Some(id) /\ col'.selectedRight # Some(id)
       /\ \A i \in DOMAIN col.leftItems :
             IsSome(col.leftItems[i]) => col'.leftItems[i] = col.leftItems[i]
       /\ \A i \in DOMAIN col.rightItems :
             IsSome(col.rightItems[i]) =>
                col'.rightItems[i] = col.rightItems[i]
       /\ col'.attempts > col.attempts =>
             /\ Val(col'.feedback).left \notin col.matchedPairs
             /\ Val(col'.feedback).right \notin col.matchedPairs]_vars

\* with correctMatches = [{0,0},{0,1}]: left 0 is matched with right 0, and
\* right 1, whose only partner is left 0, is selected
C23_PartnerAlreadyMatched ==
  /\ col.correctMatches = <<Match(0, 0), Match(0, 1)>>
  /\ col.matchedPairs = {leftId(0), rightId(0)}
  /\ col.leftItems[0] = Some(rightId(0))
  /\ col.selectedRight = Some(rightId(1))


\* the face-up unmatched cards that are neither the recorded first pick nor
\* in the pair of a pending mismatch timeout
StrandedCards ==
  { c \in FaceUpUnmatched :
      /\ c \notin Range(cg.flippedCards)
      /\ \A t \in cg.timeouts : c \notin Range(t) }

\* C24: the card game never strands a card: in a started session every card
\* that is face up and not matched is the recorded first pick or will be
\* turned back by a pending mismatch timeout.
C24_NoStrandedCard == cg.gameStarted => StrandedCards = {}

\* a running game with no pending timeout and no recorded pick in which a
\* card lies face up unmatched: no click on it is accepted and nothing will
\* turn it back
C24_CardStranded ==
  /\ cg.gameStarted /\ ~cg.gameFinished
  /\ cg.timeouts = {}
  /\ cg.flippedCards = <<>>
  /\ FaceUpUnmatched # {}


\* ------------------------------------------------------------------ properties of the JSON import, continued
\* the numbers of modules, items and chapters of a Document
DocModules(doc) == Len(doc.modules)

DocItems(doc) ==
  Cardinality(UNION { { <<k, j>> : j \in 1..Len(doc.modules[k].items) } :
                      k \in 1..Len(doc.modules) })

DocChapters(doc) ==
  Cardinality(UNION { UNION { { <<k, j, c>> :
                                 c \in 1..Len(OrElse(doc.modules[k].items[j].chapters,
                                                     <<>>)) } :
                              j \in 1..Len(doc.modules[k].items) } :
                      k \in 1..Len(doc.modules) })

\* the save of editor e that created its course has returned without an
\* error or a failed store call, and the fetch started by the navigation is
\* over
CreatedAndLoaded(e) ==
  /\ CleanImport(e)
  /\ ed[e].g.isNew
  /\ ed[e].bg.pc = "idle"
  /\ ed[e].error = ""
  /\ IsSome(ed[e].parsedJson)

\* C25: the save that creates a course and the reload started by its
\* navigation do not race: once both are over, the editor holds a Document
\* with no fewer modules, items or chapters than the one just saved.
C25_NoCreateRace ==
  \A e \in Editors :
    CreatedAndLoaded(e) =>
      /\ DocModules(Val(ed[e].parsedJson)) >= DocModules(ed[e].g.doc)
      /\ DocItems(Val(ed[e].parsedJson)) >= DocItems(ed[e].g.doc)
      /\ DocChapters(Val(ed[e].parsedJson)) >= DocChapters(ed[e].g.doc)

\* a Document of two modules was saved as a new course and all of it is
\* stored, but the editor holds the course with one module
C25_PartialDocumentHeld ==
  \E e \in Editors :
    /\ CreatedAndLoaded(e)
    /\ DocModules(ed[e].g.doc) = 2
    /\ Len(ModulesOf(ed[e].courseId)) = 2
    /\ DocModules(Val(ed[e].parsedJson)) = 1


\* ------------------------------------------------------------------ properties of the form editor, continued
\* the modules with each placeholder id replaced by the id of the row
\* inserted for that module: the batch insert returns its rows in the order
\* of modulesToCreate
OwnModuleIds(mods, savedModules) ==
  [k \in 1..Len(mods) |->
     LET rank == Cardinality({ j \in 1..k : startsWithTemp(mods[j].id) })
     IN IF startsWithTemp(mods[k].id) /\ rank <= Len(savedModules)
        THEN [mods[k] EXCEPT !.id = savedModules[rank].id]
        ELSE mods[k]]

ModuleIdsOf(mods) == [k \in 1..Len(mods) |-> mods[k].id]

\* the save of the form has written its modules and goes on to its items
FormItemsPhase == fe.pc \in {"insertItems", "updateItems"}

\* C26: id reconciliation of the form editor: when a save has inserted the
\* unsaved modules, each of them is mapped to the id of its own inserted
\* row, the unsaved items are inserted with the id of the module they were
\* created under, and after the save no two modules of the form have the
\* same id.
C26_OwnIdsMapped ==
  /\ (FormItemsPhase /\ Len(fe.sv.savedModules) > 0) =>
        LET own == OwnModuleIds(fe.sv.modules, fe.sv.savedModules)
        IN /\ ModuleIdsOf(fe.sv.allModules) = ModuleIdsOf(own)
           /\ FormItemsData(itemsToCreate(fe.sv.allModules))
                = FormItemsData(itemsToCreate(own))
  /\ (fe.pc = "idle" /\ fe.result = "ok") =>
        \A k, l \in 1..Len(fe.modules) :
           (k # l /\ ~startsWithTemp(fe.modules[k].id)) =>
              fe.modules[k].id # fe.modules[l].id

\* a save of a new course inserted two unsaved modules and returned without
\* error: both rows are stored, and both modules of the form carry the id
\* of the first row
C26_TwoModulesOneId ==
  /\ fe.pc = "idle"
  /\ fe.result = "ok"
  /\ fe.failed = {}
  /\ Len(ModulesOf(fe.courseId)) = 2
  /\ Len(fe.modules) = 2
  /\ fe.modules[1].id = ModulesOf(fe.courseId)[1].id
  /\ fe.modules[2].id = ModulesOf(fe.courseId)[1].id


\* the chapters stored for the items of a course
StoredChaptersOf(cid) ==
  Cardinality({ k \in 1..Len(chapters) :
                  chapters[k].item_id \in AllItemIds(FetchModules(cid)) })

\* the step of editor e is the last one of a fetchCourse that no save runs
\* beside: the fetch of the mount before the first save, or the reload
FetchEnds(e) ==
  \/ /\ ed[e].saves = 0
     /\ ed[e].bg.pc \in {"modules", "chapters"}
     /\ ed'[e].bg.pc = "idle"
  \/ /\ ed[e].rl.pc \in {"modules", "chapters"}
     /\ ed'[e].rl.pc = "idle"

\* C27: the export is complete or fails: a fetchCourse that ends either
\* reports a load error or leaves a Document with every chapter stored for
\* the items of the course.
C27_ExportCompleteOrFails ==
  [][\A e \in Editors :
       FetchEnds(e) =>
          \/ ed'[e].error = "load"
          \/ DocChapters(Val(ed'[e].parsedJson))
               = StoredChaptersOf(ed[e].courseId)]_vars

\* the editor was opened on the stored course, the chapters query of its
\* load failed, and the editor shows the course without its chapter and
\* without an error
C27_ChaptersSilentlyAbsent ==
  /\ ed[1].saves = 0
  /\ ed[1].bg.pc = "idle" /\ ~ed[1].loading
  /\ "bg.chapters" \in ed[1].g.failed
  /\ ed[1].error = ""
  /\ IsSome(ed[1].parsedJson)
  /\ DocItems(Val(ed[1].parsedJson)) = 1
  /\ DocChapters(Val(ed[1].parsedJson)) = 0
  /\ StoredChaptersOf(ed[1].courseId) = 1


\* ------------------------------------------------------------------ properties of the game sessions, continued
\* C28: in the column game every registered match costs one counted
\* evaluation: the matched items are never more than two per attempt, so a
\* finished session has attempts >= the required matches, the attempts part
\* of its score is at most 1000 and the emitted score lies in 0..2000.
C28_AttemptsCoverMatches ==
  /\ col.gameStarted =>
        Cardinality(col.matchedPairs) <= 2 * col.attempts
  /\ col.gameFinished =>
        /\ col.attempts >= Len(col.correctMatches)
        /\ 1000 - (100 * (col.attempts - Len(col.correctMatches))) <= 1000
        /\ IsSome(col.lastScore)
        /\ Val(col.lastScore).attempts = col.attempts
        /\ Val(col.lastScore).score \in 0..2000

\* a game of two matches finished at once with exactly two attempts and
\* emitted the full score
C28_FullScore ==
  /\ col.gameFinished
  /\ Len(col.correctMatches) = 2
  /\ col.attempts = 2
  /\ Val(col.lastScore).score = 2000


\* the game_content the props of the mounted column game come from
ColumnConfig(r) ==
  [NoConfig EXCEPT
     !.gameType = Some("column-matching"),
     !.leftColumn = Some([i \in 1..r.leftColumn |-> "a"]),
     !.rightColumn = Some([i \in 1..r.rightColumn |-> "b"]),
     !.correctMatches = Some(r.correctMatches)]

\* the pairs a click sequence can still get registered: both items exist
\* and neither is matched
Registrable(r) ==
  { m \in Range(r.correctMatches) :
      /\ m.left \in DOMAIN r.leftItems
      /\ m.right \in DOMAIN r.rightItems
      /\ leftId(m.left) \notin r.matchedPairs
      /\ rightId(m.right) \notin r.matchedPairs }

\* some sequence of registered pairs takes matchedPairs to the size the
\* finish effect waits for
RECURSIVE CanFinish(_)
CanFinish(r) ==
  \/ Cardinality(r.matchedPairs) = 2 * Len(r.correctMatches)
  \/ \E m \in Registrable(r) :
        CanFinish([r EXCEPT !.matchedPairs =
                               @ \cup {leftId(m.left), rightId(m.right)}])

\* C29: the column game can always be completed: in a running session of a
\* game whose configuration the registered validator accepts, some sequence
\* of clicks still takes matchedPairs to 2 * correctMatches.length.
C29_Completable ==
  (/\ col.gameStarted /\ ~col.gameFinished
   /\ validateConfig_columnMatching(ColumnConfig(col))) =>
     CanFinish(col)

\* with the accepted configuration correctMatches = [{0,0},{0,1}] the one
\* left item is matched, no pair is left to register, and the game is not
\* finished
C29_StuckOneShort ==
  /\ col.gameStarted /\ ~col.gameFinished
  /\ validateConfig_columnMatching(ColumnConfig(col))
  /\ col.correctMatches = <<Match(0, 0), Match(0, 1)>>
  /\ col.matchedPairs = {leftId(0), rightId(0)}
  /\ Registrable(col) = {}


\* ------------------------------------------------------------------ properties of the protected routes
\* C30: a route with a required role shows its children only to a
\* signed-in user whose loaded profile has that role or the role admin
C30_RoleGate ==
  (/\ au.mounted
   /\ IsSome(au.route.requiredRole)
   /\ Rendered(au) = "children")
    => /\ IsSome(au.user)
       /\ IsSome(au.profile)
       /\ Val(au.profile) \in {Val(au.route.requiredRole), "admin"}

\* a signed-in student whose profile could not be loaded sees the children
\* of the admin route
C30_NoProfileAdmitted ==
  /\ au.mounted
  /\ au.route = Route("/admin", TRUE, Some("admin"))
  /\ au.signedIn
  /\ au.storedRole = Some("student")
  /\ IsSome(au.user)
  /\ au.profile = None
  /\ ~au.loading
  /\ au.initFetch = FALSE
  /\ au.eventFetches = 0
  /\ Rendered(au) = "children"

====
